---- MODULE Spec2Model ----
(***************************************************************************)
(* A model of the ucall client transport and of its benchmark harness.     *)
(*                                                                         *)
(*   SpecSerial    examples/bench.py  bench_serial, one loop iteration per *)
(*                 step                                                    *)
(*   SpecParallel  examples/bench.py  bench_parallel: the parent, its      *)
(*                 worker processes and the shared multiprocessing Values  *)
(*   SpecBenchmark benchmark/benchmark.py  benchmark and safe_call         *)
(*   SpecClient    src/ucall/client.py Client and ClientTLS,               *)
(*                 src/ujrpc/client.py Client, benchmark/ujrpc_client.py   *)
(*                 ClientSumTCP: one client, its sockets and its peer      *)
(*                                                                         *)
(* Time is counted in clock ticks (integers); a float quotient a / b is    *)
(* kept as the exact fraction [num |-> a, den |-> b].                      *)
(***************************************************************************)
EXTENDS Integers, Sequences, FiniteSets, TLC

\* ---------------------------------------------------------------- bounds
MaxRequests == 3   \* largest requests_count of a serial run
MaxDt       == 2   \* largest number of ticks one iteration takes
MaxSeconds  == 2   \* largest time budget (ticks)
MaxThreads  == 2   \* largest number of worker processes
MaxParRequests == 1 \* largest requests_count of a parallel run
MaxParDt    == 1   \* largest number of ticks one iteration of a worker takes
MaxTransmits == 3  \* largest transmits_count of benchmark()
MaxRet      == 2   \* largest value the callable returns
MaxSockets  == 2   \* how many sockets one client may create
MaxInvokes  == 2   \* how many invokes one client makes
MaxChecks   == 2   \* how many checks in a row, nothing happening in between
MaxParams   == 2   \* how many parameters one method call passes
MaxId       == 2   \* the ids in play, a sample of 1..2^16
MaxTerm     == 2   \* the terms of a sum request, a sample of 1..1000
MaxItems    == 8   \* how many entries a batch or a response array has
MaxClients  == 2   \* how many clients send and receive in shuffled order
MaxCycles   == 2   \* how many rounds of sends and receives they make
MaxLinks    == 4   \* how many connections the worker processes may make
MaxWorkerCalls == 2   \* largest requests_count of a worker process
MaxElement  == 1   \* largest item of an array
MaxPixel    == 3   \* largest pixel of an image

\* ------------------------------------------------------------- fractions
Frac(a, b)    == [num |-> a, den |-> b]
FracZero      == Frac(0, 1)
FracEq(x, y)  == x.num * y.den = y.num * x.den
FracAdd(x, y) == Frac(x.num * y.den + y.num * x.den, x.den * y.den)
FracDivInt(x, n) == Frac(x.num, x.den * n)

RECURSIVE GCD(_, _)
GCD(a, b) == IF b = 0 THEN a ELSE GCD(b, a % b)
\* The same number in lowest terms (one state per value).
Reduced(x) == LET g == GCD(x.num, x.den)
              IN  IF g = 0 THEN x ELSE Frac(x.num \div g, x.den \div g)

\* ------------------------------------------------------------ sockets
None == 0
SockIds == 1..MaxSockets

Min(a, b) == IF a <= b THEN a ELSE b
Take(seq, k) == SubSeq(seq, 1, k)
Drop(seq, k) == SubSeq(seq, k + 1, Len(seq))

\* A socket as the kernel (and, for TLS, the SSL object) holds it:
\*   st       "unused", "created" (never connected), "open", "done" (reset)
\*   rcv      the bytes that arrived and were not read
\*   recs     TLS: the lengths of the records not yet decrypted
\*   pending  TLS: how many bytes at the front of rcv are decrypted already
\*   fin      the peer closed its side
\*   err      an error (a reset) is pending
\*   timeout  settimeout() was given a number
\*   offered  TLS: the session given to wrap_socket, by the connection it
\*            was captured from
UnusedSocket ==
    [st |-> "unused", tls |-> FALSE, rcv |-> <<>>, recs |-> <<>>,
     pending |-> 0, fin |-> FALSE, err |-> FALSE, timeout |-> FALSE,
     fd |-> FALSE, offered |-> None]

\* socket.socket(AF_INET, SOCK_STREAM), wrapped by the SSL context or not.
socket_socket(tls) ==
    [UnusedSocket EXCEPT !.st = "created", !.tls = tls, !.fd = TRUE]

\* self.sock is bound to another object: the socket it held has no reference
\* left and its deallocation gives the descriptor back. No code calls
\* close().
Release(ss, sk) == IF sk = None THEN ss ELSE [ss EXCEPT ![sk].fd = FALSE]

\* sock.recv(1, MSG_PEEK | MSG_DONTWAIT): what the call gives and the
\* socket afterwards. A pending error is reported once and cleared. On a
\* socket with a timeout Python waits for data first and raises
\* TimeoutError when none comes.
KPeek(s) ==
    CASE s.st = "created" -> [res |-> "ENOTCONN", sock |-> s]
      [] s.st # "created" /\ s.rcv # <<>> -> [res |-> "data", sock |-> s]
      [] s.st # "created" /\ s.rcv = <<>> /\ s.err ->
            [res |-> "ECONNRESET",
             sock |-> [s EXCEPT !.err = FALSE, !.st = "done"]]
      [] s.st # "created" /\ s.rcv = <<>> /\ ~s.err
            /\ (s.fin \/ s.st = "done") -> [res |-> "eof", sock |-> s]
      [] OTHER -> [res |-> IF s.timeout THEN "TimeoutError" ELSE "EAGAIN",
                   sock |-> s]

\* sock.recv(n) on a plain socket: up to n of the unread bytes; "block" when
\* there is nothing to return yet.
KRecv(s, n) ==
    CASE s.st = "created" -> [res |-> "ENOTCONN", buf |-> <<>>, sock |-> s]
      [] s.st # "created" /\ s.rcv # <<>> ->
            LET k == Min(n, Len(s.rcv))
            IN  [res |-> "data", buf |-> Take(s.rcv, k),
                 sock |-> [s EXCEPT !.rcv = Drop(@, k)]]
      [] s.st # "created" /\ s.rcv = <<>> /\ s.err ->
            [res |-> "ECONNRESET", buf |-> <<>>,
             sock |-> [s EXCEPT !.err = FALSE, !.st = "done"]]
      [] s.st # "created" /\ s.rcv = <<>> /\ ~s.err
            /\ (s.fin \/ s.st = "done") ->
            [res |-> "eof", buf |-> <<>>, sock |-> s]
      [] OTHER -> [res |-> "block", buf |-> <<>>, sock |-> s]

\* SSLSocket.read(n): bytes of one record at most; a read decrypts the next
\* record when nothing decrypted is left. Without an SSL object (the socket
\* never connected) it raises ValueError.
SslRead(s, n) ==
    CASE s.st = "created" -> [res |-> "ValueError", buf |-> <<>>, sock |-> s]
      [] s.st # "created" /\ s.pending > 0 ->
            LET k == Min(n, s.pending)
            IN  [res |-> "data", buf |-> Take(s.rcv, k),
                 sock |-> [s EXCEPT !.rcv = Drop(@, k), !.pending = @ - k]]
      [] s.st # "created" /\ s.pending = 0 /\ s.recs # <<>> ->
            LET k == Min(n, Head(s.recs))
            IN  [res |-> "data", buf |-> Take(s.rcv, k),
                 sock |-> [s EXCEPT !.rcv = Drop(@, k),
                                    !.pending = Head(s.recs) - k,
                                    !.recs = Tail(@)]]
      [] s.st # "created" /\ s.pending = 0 /\ s.recs = <<>> /\ s.err ->
            [res |-> "ECONNRESET", buf |-> <<>>,
             sock |-> [s EXCEPT !.err = FALSE, !.st = "done"]]
      [] s.st # "created" /\ s.pending = 0 /\ s.recs = <<>> /\ ~s.err
            /\ (s.fin \/ s.st = "done") ->
            [res |-> "eof", buf |-> <<>>, sock |-> s]
      [] OTHER -> [res |-> "block", buf |-> <<>>, sock |-> s]

\* sock.recv(n) of either kind of socket.
Recv(s, n) == IF s.tls THEN SslRead(s, n) ELSE KRecv(s, n)

\* The errno values Python raises as BlockingIOError.
BlockingErrnos == {"EAGAIN", "EALREADY", "EINPROGRESS"}

\* The result of a closed-connection check.
Answer(value, ss, p) ==
    [blocked |-> FALSE, raised |-> "", value |-> value, socks |-> ss,
     peeked |-> p]
Raises(exc, ss, p) ==
    [blocked |-> FALSE, raised |-> exc, value |-> FALSE, socks |-> ss,
     peeked |-> p]
Blocks(ss) ==
    [blocked |-> TRUE, raised |-> "", value |-> FALSE, socks |-> ss,
     peeked |-> "none"]

\* socket_is_closed with every exception of the peek swallowed.
socket_is_closed_SwallowsAll(sk, ss) ==
    IF sk = None
    THEN Answer(TRUE, ss, "none")
    ELSE LET p   == KPeek(ss[sk])
             ss1 == [ss EXCEPT ![sk] = p.sock]
         IN  CASE p.res = "eof"  -> Answer(TRUE, ss1, p.res)
               [] OTHER -> Answer(FALSE, ss1, p.res)

\* The check that also answers True when the peek would block: an idle
\* connection counts as closed.
socket_is_closed_IdleIsClosed(sk, ss) ==
    IF sk = None
    THEN Answer(TRUE, ss, "none")
    ELSE LET p   == KPeek(ss[sk])
             ss1 == [ss EXCEPT ![sk] = p.sock]
         IN  CASE p.res = "eof"  -> Answer(TRUE, ss1, p.res)
               [] p.res = "data" -> Answer(FALSE, ss1, p.res)
               [] p.res \in BlockingErrnos /\ p.res = "EAGAIN" ->
                     Answer(TRUE, ss1, p.res)
               [] OTHER -> Raises(p.res, ss1, p.res)

\* Client._socket_is_closed of ucall and socket_is_closed of ujrpc: True
\* without a socket or when the peek returns b''; a BlockingIOError with
\* errno EAGAIN is swallowed, every other exception leaves the function.
socket_is_closed(sk, ss) ==
    IF sk = None
    THEN Answer(TRUE, ss, "none")
    ELSE LET p   == KPeek(ss[sk])
             ss1 == [ss EXCEPT ![sk] = p.sock]
         IN  CASE p.res = "eof"  -> Answer(TRUE, ss1, p.res)
               [] p.res = "data" -> Answer(FALSE, ss1, p.res)
               [] p.res \in BlockingErrnos /\ p.res = "EAGAIN" ->
                     Answer(FALSE, ss1, p.res)
               [] OTHER -> Raises(p.res, ss1, p.res)

\* ClientTLS._socket_is_closed: reads one byte from the stream, then asks
\* the SSL object how many decrypted bytes are left.
tls_socket_is_closed(sk, ss) ==
    IF sk = None
    THEN Answer(TRUE, ss, "none")
    ELSE LET r   == SslRead(ss[sk], 1)
             ss1 == [ss EXCEPT ![sk] = r.sock]
         IN  CASE r.res = "block" -> Blocks(ss)
               [] r.res \in {"data", "eof"} ->
                     Answer(r.sock.pending <= 0, ss1, r.res)
               [] OTHER -> Raises(r.res, ss1, r.res)

\* self._socket_is_closed() of the client class at hand.
IsClosed(v, sk, ss) ==
    IF v = "ucall_tls" THEN tls_socket_is_closed(sk, ss)
    ELSE socket_is_closed(sk, ss)

\* ------------------------------------------------- examples/bench.py Stats
\* The messages str(e) an exception of the callable may carry.
ErrMsgs == {"timeout", "reset"}

\* Stats(): every field at its dataclass default.
StatsDefault ==
    [requests            |-> 0,
     requests_correct    |-> 0,
     requests_incorrect  |-> 0,
     requests_failure    |-> 0,
     mean_latency_secs   |-> FracZero,
     total_secs          |-> 0,
     last_failure        |-> ""]

\* Stats.success_rate: requests_correct * 1.0 / (requests + 1).
success_rate(st) ==
    IF st.requests + 1 = 0
    THEN [raised |-> "ZeroDivisionError", value |-> FracZero]
    ELSE [raised |-> "", value |-> Frac(st.requests_correct, st.requests + 1)]

\* What one invocation of the callable does: the integer it returns (the
\* requests it completed) or the exception it raises, and how many ticks
\* pass between the two readings of the monotonic clock around it.
Outcomes == {"return", "AssertionError", "Exception", "KeyboardInterrupt"}
Behaviours(maxdt) ==
    { [outcome |-> "return", msg |-> "", dt |-> d, ret |-> r] :
        d \in 0..maxdt, r \in 0..MaxRet }
    \cup
    { [outcome |-> o, msg |-> "", dt |-> d, ret |-> 0] :
        o \in {"AssertionError", "KeyboardInterrupt"}, d \in 0..maxdt }
    \cup
    { [outcome |-> "Exception", msg |-> m, dt |-> d, ret |-> 0] :
        m \in ErrMsgs, d \in 0..maxdt }

\* TryCallable with the total forgotten in the generic except clause.
TryCallable_FailureNotTotalled(st, b) ==
    CASE b.outcome = "return" ->
            [st EXCEPT !.requests = @ + 1, !.requests_correct = @ + 1]
      [] b.outcome = "AssertionError" ->
            [st EXCEPT !.requests = @ + 1, !.requests_incorrect = @ + 1]
      [] b.outcome = "Exception" ->
            [st EXCEPT !.requests_failure = @ + 1, !.last_failure = b.msg]
      [] OTHER -> st

\* The try statement of the loop body: the counters after callable() behaved
\* as b.
TryCallable(st, b) ==
    CASE b.outcome = "return" ->
            [st EXCEPT !.requests = @ + 1, !.requests_correct = @ + 1]
      [] b.outcome = "AssertionError" ->
            [st EXCEPT !.requests = @ + 1, !.requests_incorrect = @ + 1]
      [] b.outcome = "Exception" ->
            [st EXCEPT !.requests = @ + 1, !.requests_failure = @ + 1,
                       !.last_failure = b.msg]
      [] OTHER -> st   \* KeyboardInterrupt: only should_stop is set

\* The loop body without the comparison of total_secs with seconds.
LoopBody_NoBudget(st, stop, secs, b) ==
    LET tried == TryCallable(st, b)
        timed == [tried EXCEPT !.total_secs = @ + b.dt]
        stop1 == stop \/ b.outcome = "KeyboardInterrupt"
    IN  [stats |-> timed, should_stop |-> stop1]

\* One pass through the body of the for loop: the new stats and should_stop.
LoopBody(st, stop, secs, b) ==
    LET tried == TryCallable(st, b)
        timed == [tried EXCEPT !.total_secs = @ + b.dt]
        stop1 == stop \/ b.outcome = "KeyboardInterrupt"
    IN  [stats |-> timed, should_stop |-> stop1 \/ timed.total_secs > secs]

\* The statement after the loop: total_secs / requests raises
\* ZeroDivisionError when no request was counted.
Finalize(st) ==
    IF st.requests = 0
    THEN [raised |-> "ZeroDivisionError", stats |-> st]
    ELSE [raised |-> "",
          stats  |-> [st EXCEPT !.mean_latency_secs =
                                    Frac(st.total_secs, st.requests)]]

VARIABLES
    \* bench_serial
    requests_count,   \* argument
    seconds,          \* argument, in ticks
    stats,            \* the local Stats
    should_stop,      \* the local flag
    calls,            \* how many times callable() was invoked
    last,             \* behaviour of the latest invocation ("" before any)
    before,           \* stats as they were when the latest iteration began
    bpc               \* "loop", "returned" or "raised"

serialVars == <<requests_count, seconds, stats, should_stop, calls, last,
                before, bpc>>

VARIABLES
    \* bench_parallel
    threads,          \* argument
    shared,           \* the multiprocessing Values, by name
    wpc,              \* per worker process: where it is in run()
    wstats,           \* per worker: the Stats its bench_serial returned
    wreg,             \* per worker: the value it read for the pending +=
    started,          \* how many processes the parent has started
    joined,           \* how many processes the parent has joined
    ppc,              \* the parent: "called", "starting", "joining",
                      \* "returned" or "raised"
    result,           \* the Stats bench_parallel returns
    now,              \* the monotonic clock
    wbegin,           \* per worker: the clock when it was started
    global_start_time \* the parent's first clock reading

parallelVars == <<threads, shared, wpc, wstats, wreg, started, joined, ppc,
                  result, now, wbegin, global_start_time>>

VARIABLES
    \* benchmark/benchmark.py benchmark
    transmits_count,  \* argument
    tstats,           \* the local Stats
    tcalls,           \* how many times safe_call(callable) was invoked
    tlast,            \* behaviour of the latest invocation
    tbefore,          \* tstats as they were when the latest iteration began
    countedIn,        \* per outcome counter: the outcomes that bumped it
    tpc               \* "loop", "returned" or "raised"

benchmarkVars == <<transmits_count, tstats, tcalls, tlast, tbefore,
                   countedIn, tpc>>

VARIABLES
    \* one RPC client, the sockets it created, and its peer
    variant,          \* which client class: "ucall", "ucall_tls", "ujrpc",
                      \* "sum_tcp"
    use_http,         \* Client.use_http
    sock,             \* self.sock: None or a socket
    socks,            \* the sockets, as the kernel sees them
    nsock,            \* how many sockets were created
    wire,             \* per socket: bytes the peer wrote, still in flight
    unanswered,       \* per socket: requests the peer has not answered
    reply,            \* per socket: the latest response the peer wrote
    cpc,              \* where the client is
    cont,             \* what a blocked closed-connection check is part of
    header,           \* _receive_all: header
    body,             \* _receive_all: body; recvall: data
    content_len,      \* _receive_all: content_len
    ret,              \* how the latest invoke ended
    checked,          \* the answer of the latest closed-connection check
    peeked,           \* what the latest peek got from the kernel
    run,              \* the checks made in a row with nothing in between
    inv,              \* the latest invoke: its connection attempts
    session,          \* ClientTLS: self.session, the connection it is of
    session_resumption \* ClientTLS: enable_session_resumption

VARIABLES
    \* one method call on a client, seen as JSON messages
    klass,            \* which client class makes the call
    input,            \* what the caller passed
    request,          \* the request object the client sent, if any
    response,         \* the response object the peer sent, if any
    outcome,          \* how the call ended: what it returned or raised
    accessed,         \* the latest accessor of the returned Response
    conn,             \* the client's connection and what was sent on it
    mpc               \* where the call is

callVars == <<klass, input, request, response, outcome, accessed, conn, mpc>>

VARIABLES
    \* one batch of sum requests and its response
    bvariant,         \* which ClientSumBatchesTCP: "benchmark" or "tests"
    batch,            \* the batch sent: which entries bear an id, the sum
    length,           \* the length recv compares the response with
    bresponse,        \* the JSON value the peer answered with
    boutcome,         \* what recv returned or raised
    batpc             \* where the batch client is

batchVars == <<bvariant, batch, length, bresponse, boutcome, batpc>>

VARIABLES
    \* several clients, each with its own connection, sending and
    \* receiving in shuffled order
    clients,          \* per client: its socket, expectation and position
    conns,            \* per connection: requests and responses in flight
    nconn,            \* how many connections were made
    cycle             \* the round of sends and receives

shuffleVars == <<clients, conns, nconn, cycle>>

VARIABLES
    \* bench_parallel over a ClientSumTCP: the worker processes' sockets
    held,             \* the socket of the callable when bench_parallel is called
    wclient,          \* per worker process: its copy of the callable
    links,            \* per connection: closed by the peer, and who used it
    nlink             \* how many connections exist

forkVars == <<held, wclient, links, nlink>>

VARIABLES
    \* one binary value through pack on one side and unpack on the other
    payload,          \* the array or image given to pack
    way,              \* which pack and which unpack it goes through
    sent_hint,        \* the type hint, or the accessor, the reader uses
    packed,           \* what pack gave: the bytes of the file it wrote
    unpacked,         \* what unpack gave
    kpc               \* "none", "start", "packed", "done"

codecVars == <<payload, way, sent_hint, packed, unpacked, kpc>>

VARIABLES
    \* a function given to Server.route and one call of what was routed
    server,           \* which class routes: "Server" or "_Server"
    func,             \* the function: its parameters' hints, its return hint
    wargs,            \* the positional arguments of the call
    wkwargs,          \* the keyword arguments of the call, in their order
    routed,           \* what the native server was given: "func", "wrapper"
    passed,           \* what func was called with, or the exception raised
    rpc               \* "none", "start", "routed", "called"

routeVars == <<server, func, wargs, wkwargs, routed, passed, rpc>>

clientVars == <<variant, use_http, sock, socks, nsock, wire, unanswered, reply,
                cpc, cont, header, body, content_len, ret, checked, peeked,
                run, inv, session, session_resumption>>

vars == <<serialVars, parallelVars, benchmarkVars, clientVars, callVars,
          batchVars, shuffleVars, forkVars, codecVars, routeVars>>

\* What the steps of one program leave alone: the state of the others.
notSerial    == <<parallelVars, benchmarkVars, clientVars, callVars,
                  batchVars, shuffleVars, forkVars, codecVars,
                  routeVars>>
notParallel  == <<serialVars, benchmarkVars, clientVars, callVars, batchVars,
                  shuffleVars, forkVars, codecVars,
                  routeVars>>
notBenchmark == <<serialVars, parallelVars, clientVars, callVars, batchVars,
                  shuffleVars, forkVars, codecVars,
                  routeVars>>
notClient    == <<serialVars, parallelVars, benchmarkVars, callVars,
                  batchVars, shuffleVars, forkVars, codecVars,
                  routeVars>>
notCall      == <<serialVars, parallelVars, benchmarkVars, clientVars,
                  batchVars, shuffleVars, forkVars, codecVars,
                  routeVars>>
notBatch     == <<serialVars, parallelVars, benchmarkVars, clientVars,
                  callVars, shuffleVars, forkVars, codecVars,
                  routeVars>>
notFork      == <<serialVars, parallelVars, benchmarkVars, clientVars,
                  callVars, batchVars, shuffleVars, codecVars,
                  routeVars>>
notShuffle   == <<serialVars, parallelVars, benchmarkVars, clientVars,
                  callVars, batchVars, forkVars, codecVars,
                  routeVars>>
notRoute     == <<serialVars, parallelVars, benchmarkVars, clientVars,
                  callVars, batchVars, shuffleVars, forkVars, codecVars>>
notCodec     == <<serialVars, parallelVars, benchmarkVars, clientVars,
                  callVars, batchVars, shuffleVars, forkVars, routeVars>>

NoBehaviour == [outcome |-> "", msg |-> "", dt |-> 0, ret |-> 0]

\* ------------------------------------------ benchmark/benchmark.py Stats
TStatsDefault ==
    [transmits_success |-> 0,
     transmits_failed  |-> 0,
     requests          |-> 0,
     mean_latency_secs |-> FracZero,
     total_secs        |-> 0]

\* The counters of that Stats that count outcomes of a transmit.
OutcomeCounters == {"transmits_success", "transmits_failed"}

NoTransmit == [outcome |-> "", ret |-> 0, dt |-> 0]

\* benchmark() has not been called.
BenchmarkIdle ==
    /\ transmits_count = 0
    /\ tstats = TStatsDefault
    /\ tcalls = 0
    /\ tlast = NoTransmit
    /\ tbefore = TStatsDefault
    /\ countedIn = [f \in OutcomeCounters |-> {}]
    /\ tpc = "idle"

\* ------------------------------------------------------------ the client
Variants == {"ucall", "ucall_tls", "ujrpc", "sum_tcp"}

NoAnswer == "none"
NoRun    == [n |-> 0, first |-> NoAnswer, unread |-> <<>>, handle |-> None]
NoInvoke == [n |-> 0, connects |-> 0, failed |-> FALSE, prevFailed |-> FALSE,
             peeked |-> "", answer |-> "", handle |-> None,
             staleOpen |-> FALSE]
NoReturn == [raised |-> "", value |-> <<>>]

\* No client has been constructed.
\* No method call is being made.
NoInput    == [via |-> "none", pos |-> FALSE, args |-> <<>>, keys |-> <<>>,
               kwargs |-> <<>>, id |-> None]
NoRequest  == [sent |-> FALSE, id |-> None, pos |-> FALSE, keys |-> <<>>,
               params |-> <<>>, a |-> 0, b |-> 0]
NoValue    == [kind |-> "none", v |-> 0, enc |-> ""]
NoResponse == [got |-> FALSE, jsonrpc |-> "missing", id |-> None, has |-> {},
               result |-> NoValue, error |-> 0]
NoOutcome  == [raised |-> "", carries |-> 0, returned |-> FALSE,
               data |-> NoResponse]
NoAccess   == [name |-> "", raised |-> "", carries |-> 0,
               value |-> NoValue, returned |-> FALSE]
NoConn     == [opened |-> 0, sends |-> 0, opened0 |-> 0, sends0 |-> 0]
CallIdle ==
    /\ klass = "none"
    /\ input = NoInput
    /\ request = NoRequest
    /\ response = NoResponse
    /\ outcome = NoOutcome
    /\ accessed = NoAccess
    /\ conn = NoConn
    /\ mpc = "none"

\* No batch client runs.
NoBatch         == [ids |-> <<>>, expected |-> -1]
NoBatchResponse == [shape |-> "none", items |-> <<>>]
NoBatchOutcome  == [raised |-> "", returned |-> FALSE, value |-> 0]
BatchIdle ==
    /\ bvariant = "none"
    /\ batch = NoBatch
    /\ length = 0
    /\ bresponse = NoBatchResponse
    /\ boutcome = NoBatchOutcome
    /\ batpc = "none"

\* No array or image, no file and no result. A PIL image without a format
\* (format None) has format "".
NoPayload == [kind |-> "", dtype |-> "", shape |-> <<>>, format |-> "",
              mode |-> "", data |-> 0]
NoPacked == [raised |-> "", text |-> FALSE, container |-> "", dtype |-> "",
             shape |-> <<>>, mode |-> "", data |-> 0, pickled |-> FALSE]
NoUnpacked == [raised |-> "", kind |-> "", value |-> NoPayload]

\* No value is packed.
CodecIdle ==
    /\ payload = NoPayload
    /\ way = ""
    /\ sent_hint = ""
    /\ packed = NoPacked
    /\ unpacked = NoUnpacked
    /\ kpc = "none"

\* No function, and no call of one.
NoFunc == [hints |-> <<>>, ret |-> ""]
NoPassed == [raised |-> "", args |-> <<>>, kwargs |-> <<>>]

\* No function is routed.
RouteIdle ==
    /\ server = ""
    /\ func = NoFunc
    /\ wargs = <<>>
    /\ wkwargs = <<>>
    /\ routed = ""
    /\ passed = NoPassed
    /\ rpc = "none"

\* No worker processes with sockets run.
ForkIdle ==
    /\ held = None
    /\ wclient = <<>>
    /\ links = <<>>
    /\ nlink = 0

\* No shuffled clients run.
ShuffleIdle ==
    /\ clients = <<>>
    /\ conns = <<>>
    /\ nconn = 0
    /\ cycle = 0

ClientIdle ==
    /\ variant = "none"
    /\ use_http = FALSE
    /\ sock = None
    /\ socks = [i \in SockIds |-> UnusedSocket]
    /\ nsock = 0
    /\ wire = [i \in SockIds |-> <<>>]
    /\ unanswered = [i \in SockIds |-> 0]
    /\ reply = [i \in SockIds |-> <<>>]
    /\ cpc = "none"
    /\ cont = ""
    /\ header = <<>>
    /\ body = <<>>
    /\ content_len = -1
    /\ ret = NoReturn
    /\ checked = NoAnswer
    /\ peeked = "none"
    /\ run = NoRun
    /\ inv = NoInvoke
    /\ session = None
    /\ session_resumption = FALSE

Workers == 1..MaxThreads

\* The Values of bench_parallel, in the order run() adds to them.
ValueNames == <<"requests_correct", "requests_incorrect", "requests",
                "mean_latency_secs">>

NoValues == [created |-> FALSE, requests_correct |-> 0,
             requests_incorrect |-> 0, requests |-> 0,
             mean_latency_secs |-> FracZero]

\* bench_parallel has not been called.
ParallelIdle ==
    /\ threads = 1
    /\ shared = NoValues
    /\ wpc = [w \in Workers |-> [at |-> "unborn", k |-> 0]]
    /\ wstats = [w \in Workers |-> StatsDefault]
    /\ wreg = [w \in Workers |-> 0]
    /\ started = 0
    /\ joined = 0
    /\ ppc = "idle"
    /\ result = StatsDefault
    /\ now = 0
    /\ wbegin = [w \in Workers |-> 0]
    /\ global_start_time = 0

\* bench_serial has not been called on its own.
SerialIdle ==
    /\ requests_count = 0
    /\ seconds = 0
    /\ stats = StatsDefault
    /\ should_stop = FALSE
    /\ calls = 0
    /\ last = NoBehaviour
    /\ before = StatsDefault
    /\ bpc = "idle"

InitSerial ==
    /\ requests_count \in 0..MaxRequests
    /\ seconds \in 0..MaxSeconds
    /\ stats = StatsDefault
    /\ should_stop = FALSE
    /\ calls = 0
    /\ last = NoBehaviour
    /\ before = StatsDefault
    /\ bpc = "loop"
    /\ ParallelIdle
    /\ BenchmarkIdle
    /\ ClientIdle
    /\ CallIdle
    /\ BatchIdle
    /\ ShuffleIdle
    /\ ForkIdle
    /\ RouteIdle
    /\ CodecIdle

\* Leaving the loop (break, or the range is used up) runs the statement after
\* it and returns, or raises.
Leave(st) ==
    LET f == Finalize(st)
    IN  /\ stats' = f.stats
        /\ bpc' = IF f.raised = "" THEN "returned" ELSE "raised"

\* One iteration of the for loop; the last one also finalizes.
Iteration ==
    /\ bpc = "loop"
    /\ calls < requests_count
    /\ \E b \in Behaviours(MaxDt) :
          LET r == LoopBody(stats, should_stop, seconds, b)
          IN  /\ calls' = calls + 1
              /\ last' = b
              /\ before' = stats
              /\ should_stop' = r.should_stop
              /\ IF r.should_stop \/ calls + 1 = requests_count
                 THEN Leave(r.stats)
                 ELSE stats' = r.stats /\ bpc' = "loop"
    /\ UNCHANGED <<requests_count, seconds>>
    /\ UNCHANGED notSerial

\* range(0): the loop body never runs.
EmptyLoop ==
    /\ bpc = "loop"
    /\ requests_count = 0
    /\ Leave(stats)
    /\ UNCHANGED <<requests_count, seconds, should_stop, calls, last, before>>
    /\ UNCHANGED notSerial

NextSerial == Iteration \/ EmptyLoop

SpecSerial == InitSerial /\ [][NextSerial]_vars

\* Every invocation of the callable ends, and the interpreter goes on to the
\* next statement.
SpecSerialLive == SpecSerial /\ WF_vars(NextSerial)

\* ------------------------------------------- examples/bench.py bench_parallel
\* bench_serial as one computation: the loop over the behaviours behav[1..n]
\* of the callable, from iteration k on, and the statement after it.
RECURSIVE bench_serial_from(_, _, _, _, _)
bench_serial_from(st, secs, behav, n, k) ==
    IF k > n
    THEN Finalize(st)
    ELSE LET r == LoopBody(st, FALSE, secs, behav[k])
         IN  IF r.should_stop
             THEN Finalize(r.stats)
             ELSE bench_serial_from(r.stats, secs, behav, n, k + 1)

bench_serial(count, secs, behav) ==
    bench_serial_from(StatsDefault, secs, behav, count, 1)

Max(a, b) == IF a >= b THEN a ELSE b

At(where, k) == [at |-> where, k |-> k]

InitParallel ==
    /\ threads \in 1..MaxThreads
    /\ requests_count \in 0..MaxParRequests
    /\ seconds \in 0..MaxSeconds
    /\ shared = NoValues
    /\ wpc = [w \in Workers |-> At("unborn", 0)]
    /\ wstats = [w \in Workers |-> StatsDefault]
    /\ wreg = [w \in Workers |-> 0]
    /\ started = 0
    /\ joined = 0
    /\ ppc = "called"
    /\ result = StatsDefault
    /\ now = 0
    /\ wbegin = [w \in Workers |-> 0]
    /\ global_start_time = 0
    /\ stats = StatsDefault
    /\ should_stop = FALSE
    /\ calls = 0
    /\ last = NoBehaviour
    /\ before = StatsDefault
    /\ bpc = "idle"
    /\ BenchmarkIdle
    /\ ClientIdle
    /\ CallIdle
    /\ BatchIdle
    /\ ShuffleIdle
    /\ ForkIdle
    /\ RouteIdle
    /\ CodecIdle

\* The call with one thread taken through the Stats constructor of the
\* parallel path, which has no failure fields among its arguments.
Delegate_ThroughValues ==
    /\ ppc = "called"
    /\ threads = 1
    /\ \E behav \in [1..requests_count -> Behaviours(MaxParDt)] :
          LET r == bench_serial(requests_count, seconds, behav)
          IN  /\ result' = [r.stats EXCEPT
                                !.requests_failure =
                                    StatsDefault.requests_failure,
                                !.last_failure = StatsDefault.last_failure]
              /\ ppc' = IF r.raised = "" THEN "returned" ELSE "raised"
              /\ now' = now + r.stats.total_secs
    /\ UNCHANGED <<threads, shared, wpc, wstats, wreg, started, joined,
                   wbegin, global_start_time>>
    /\ UNCHANGED notParallel

\* threads == 1: the call is handed to bench_serial.
Delegate ==
    /\ ppc = "called"
    /\ threads = 1
    /\ \E behav \in [1..requests_count -> Behaviours(MaxParDt)] :
          LET r == bench_serial(requests_count, seconds, behav)
          IN  /\ result' = r.stats
              /\ ppc' = IF r.raised = "" THEN "returned" ELSE "raised"
              /\ now' = now + r.stats.total_secs
    /\ UNCHANGED <<threads, shared, wpc, wstats, wreg, started, joined,
                   wbegin, global_start_time>>
    /\ UNCHANGED notParallel

\* The four Values are created at 0, the clock is read and the Process
\* objects are built.
CreateValues ==
    /\ ppc = "called"
    /\ threads # 1
    /\ shared' = [NoValues EXCEPT !.created = TRUE]
    /\ global_start_time' = now
    /\ ppc' = "starting"
    /\ UNCHANGED <<threads, wpc, wstats, wreg, started, joined, result, now,
                   wbegin>>
    /\ UNCHANGED notParallel

\* x.start() of the next process.
StartProcess ==
    /\ ppc = "starting"
    /\ started < threads
    /\ started' = started + 1
    /\ wpc' = [wpc EXCEPT ![started + 1] = At("run", 0)]
    /\ wbegin' = [wbegin EXCEPT ![started + 1] = now]
    /\ ppc' = IF started + 1 = threads THEN "joining" ELSE "starting"
    /\ UNCHANGED <<threads, shared, wstats, wreg, joined, result, now,
                   global_start_time>>
    /\ UNCHANGED notParallel

\* The sum over the started workers of the time their bench_serial measured.
RECURSIVE WorkersTime(_)
WorkersTime(n) ==
    IF n = 0 THEN 0 ELSE wstats[n].total_secs + WorkersTime(n - 1)

\* The Stats with the workers' own times added up as its total.
Aggregate_SumsWorkers ==
    [requests_correct   |-> shared.requests_correct,
     requests_incorrect |-> shared.requests_incorrect,
     requests           |-> shared.requests,
     requests_failure   |-> StatsDefault.requests_failure,
     mean_latency_secs  |-> Reduced(FracDivInt(shared.mean_latency_secs,
                                               threads)),
     total_secs         |-> WorkersTime(threads),
     last_failure       |-> StatsDefault.last_failure]

\* The Stats returned once every process is joined: the Values, the summed
\* latency over threads, and the parent's own span.
Aggregate ==
    [requests_correct   |-> shared.requests_correct,
     requests_incorrect |-> shared.requests_incorrect,
     requests           |-> shared.requests,
     requests_failure   |-> StatsDefault.requests_failure,
     mean_latency_secs  |-> Reduced(FracDivInt(shared.mean_latency_secs,
                                               threads)),
     total_secs         |-> now - global_start_time,
     last_failure       |-> StatsDefault.last_failure]

\* A join that returns without waiting for the process to end.
JoinProcess_NoWait ==
    /\ ppc = "joining"
    /\ joined < threads
    /\ joined' = joined + 1
    /\ IF joined + 1 = threads
       THEN result' = Aggregate /\ ppc' = "returned"
       ELSE UNCHANGED <<result, ppc>>
    /\ UNCHANGED <<threads, shared, wpc, wstats, wreg, started, now, wbegin,
                   global_start_time>>
    /\ UNCHANGED notParallel

\* x.join() of the next process: it returns once that process has ended.
\* After the last join the parent reads the clock and the Values.
JoinProcess ==
    /\ ppc = "joining"
    /\ joined < threads
    /\ wpc[joined + 1].at \in {"exited", "crashed"}
    /\ joined' = joined + 1
    /\ IF joined + 1 = threads
       THEN result' = Aggregate /\ ppc' = "returned"
       ELSE UNCHANGED <<result, ppc>>
    /\ UNCHANGED <<threads, shared, wpc, wstats, wreg, started, now, wbegin,
                   global_start_time>>
    /\ UNCHANGED notParallel

\* run() in worker w: its own bench_serial. A ZeroDivisionError ends the
\* process before it touches a Value.
WorkerBench(w) ==
    /\ wpc[w].at = "run"
    /\ \E behav \in [1..requests_count -> Behaviours(MaxParDt)] :
          LET r == bench_serial(requests_count, seconds, behav)
          IN  /\ now' = Max(now, wbegin[w] + r.stats.total_secs)
              /\ IF r.raised = ""
                 THEN /\ wstats' = [wstats EXCEPT ![w] = r.stats]
                      /\ wpc' = [wpc EXCEPT ![w] = At("read", 1)]
                 ELSE /\ wpc' = [wpc EXCEPT ![w] = At("crashed", 0)]
                      /\ UNCHANGED wstats
    /\ UNCHANGED <<threads, shared, wreg, started, joined, ppc, result,
                   wbegin, global_start_time>>
    /\ UNCHANGED notParallel

\* v.value += x is a read of v.value, an addition and a write of v.value;
\* the lock of the Value is held during the read and during the write, not
\* across them.
Plus(name, a, b) ==
    IF name = "mean_latency_secs" THEN Reduced(FracAdd(a, b)) ELSE a + b

WorkerRead(w) ==
    /\ wpc[w].at = "read"
    /\ wreg' = [wreg EXCEPT ![w] = shared[ValueNames[wpc[w].k]]]
    /\ wpc' = [wpc EXCEPT ![w] = At("write", wpc[w].k)]
    /\ UNCHANGED <<threads, shared, wstats, started, joined, ppc, result,
                   now, wbegin, global_start_time>>
    /\ UNCHANGED notParallel

WorkerWrite(w) ==
    /\ wpc[w].at = "write"
    /\ LET k    == wpc[w].k
           name == ValueNames[k]
       IN  /\ shared' = [shared EXCEPT
                            ![name] = Plus(name, wreg[w], wstats[w][name])]
           /\ wpc' = [wpc EXCEPT ![w] = IF k = Len(ValueNames)
                                        THEN At("exited", 0)
                                        ELSE At("read", k + 1)]
    /\ wreg' = [wreg EXCEPT ![w] = 0]
    /\ UNCHANGED <<threads, wstats, started, joined, ppc, result, now,
                   wbegin, global_start_time>>
    /\ UNCHANGED notParallel

NextParallel ==
    \/ Delegate
    \/ CreateValues
    \/ StartProcess
    \/ JoinProcess
    \/ \E w \in Workers : WorkerBench(w)
    \/ \E w \in Workers : WorkerRead(w)
    \/ \E w \in Workers : WorkerWrite(w)

SpecParallel == InitParallel /\ [][NextParallel]_vars

\* ------------------------------------- benchmark/benchmark.py benchmark
\* What one invocation of the callable does: the integer it returns, or the
\* exception it raises, and the ticks between the two clock readings.
Transmits ==
    { [outcome |-> "return", ret |-> r, dt |-> d] :
        r \in 0..MaxRet, d \in 0..MaxDt }
    \cup
    { [outcome |-> o, ret |-> 0, dt |-> d] :
        o \in Outcomes \ {"return"}, d \in 0..MaxDt }

\* safe_call: the callable's value, 0 for an AssertionError and 0 for any
\* other Exception; a KeyboardInterrupt is no Exception and passes through.
safe_call(b) ==
    CASE b.outcome = "return"         -> [raised |-> "", value |-> b.ret]
      [] b.outcome = "AssertionError" -> [raised |-> "", value |-> 0]
      [] b.outcome = "Exception"      -> [raised |-> "", value |-> 0]
      [] OTHER -> [raised |-> b.outcome, value |-> 0]

Bool2Int(p) == IF p THEN 1 ELSE 0

\* The body of the for loop of benchmark(), given what safe_call returned.
Transmit(st, successes, dt) ==
    [st EXCEPT !.requests = @ + successes,
               !.transmits_success = @ + Bool2Int(successes # 0),
               !.transmits_failed = @ + Bool2Int(successes = 0),
               !.total_secs = @ + dt]

\* The statement after the loop.
TFinalize(st) ==
    [st EXCEPT !.mean_latency_secs =
                  IF st.transmits_success > 0
                  THEN Frac(st.total_secs, st.transmits_success)
                  ELSE FracZero]

InitBenchmark ==
    /\ transmits_count \in 0..MaxTransmits
    /\ tstats = TStatsDefault
    /\ tcalls = 0
    /\ tlast = NoTransmit
    /\ tbefore = TStatsDefault
    /\ countedIn = [f \in OutcomeCounters |-> {}]
    /\ tpc = "loop"
    /\ SerialIdle
    /\ ParallelIdle
    /\ ClientIdle
    /\ CallIdle
    /\ BatchIdle
    /\ ShuffleIdle
    /\ ForkIdle
    /\ RouteIdle
    /\ CodecIdle

\* One iteration of the for loop; the last one also runs the statement after
\* the loop. An exception that safe_call lets through leaves benchmark().
TIteration ==
    /\ tpc = "loop"
    /\ tcalls < transmits_count
    /\ \E b \in Transmits :
          LET c  == safe_call(b)
              st == Transmit(tstats, c.value, b.dt)
          IN  /\ tcalls' = tcalls + 1
              /\ tlast' = b
              /\ tbefore' = tstats
              /\ IF c.raised # ""
                 THEN /\ tpc' = "raised"
                      /\ UNCHANGED <<tstats, countedIn>>
                 ELSE /\ tstats' = IF tcalls + 1 = transmits_count
                                   THEN TFinalize(st) ELSE st
                      /\ tpc' = IF tcalls + 1 = transmits_count
                                THEN "returned" ELSE "loop"
                      /\ countedIn' =
                            [f \in OutcomeCounters |->
                                IF st[f] # tstats[f]
                                THEN countedIn[f] \cup {b.outcome}
                                ELSE countedIn[f]]
    /\ UNCHANGED transmits_count
    /\ UNCHANGED notBenchmark

\* range(0): the loop body never runs.
TEmptyLoop ==
    /\ tpc = "loop"
    /\ transmits_count = 0
    /\ tstats' = TFinalize(tstats)
    /\ tpc' = "returned"
    /\ UNCHANGED <<transmits_count, tcalls, tlast, tbefore, countedIn>>
    /\ UNCHANGED notBenchmark

NextBenchmark == TIteration \/ TEmptyLoop

SpecBenchmark == InitBenchmark /\ [][NextBenchmark]_vars

\* ----------------------------------------------------- bytes on the wire
\* A byte is a token: "H", "T", "P" spell the first four bytes of an HTTP
\* response, "CR" and "LF" end a line, "L" stands for the header name
\* `Content-Length:`, a digit for itself, "{" and "}" for a JSON document.
CRLF     == <<"CR", "LF">>
CRLFCRLF == <<"CR", "LF", "CR", "LF">>
HTTP     == <<"H", "T", "T", "P">>
Digits   == <<"0", "1", "2", "3", "4", "5", "6", "7", "8", "9">>

\* The least index at which pat occurs in seq, 0 when it does not.
Find(seq, pat) ==
    LET hits == { i \in 1..(Len(seq) - Len(pat) + 1) :
                    SubSeq(seq, i, i + Len(pat) - 1) = pat }
    IN  IF hits = {} THEN 0 ELSE CHOOSE i \in hits : \A j \in hits : i <= j

\* bytes.splitlines(): the lines between CR, LF and CR LF.
RECURSIVE SplitLines(_)
SplitLines(seq) ==
    LET ends == { i \in 1..Len(seq) : seq[i] \in {"CR", "LF"} }
    IN  IF seq = <<>> THEN <<>>
        ELSE IF ends = {} THEN <<seq>>
        ELSE LET i == CHOOSE e \in ends : \A j \in ends : e <= j
                 skip == IF seq[i] = "CR" /\ i < Len(seq) /\ seq[i + 1] = "LF"
                         THEN i + 1 ELSE i
             IN  <<Take(seq, i - 1)>> \o SplitLines(Drop(seq, skip))

\* int(b): the number the digits spell; anything else raises ValueError.
RECURSIVE IntOf(_, _)
IntOf(seq, acc) ==
    IF seq = <<>> THEN acc
    ELSE LET d == { i \in 1..10 : Digits[i] = Head(seq) }
         IN  IF d = {} THEN -1
             ELSE IntOf(Tail(seq), 10 * acc + (CHOOSE i \in d : TRUE) - 1)
int(seq) ==
    IF seq = <<>> \/ IntOf(seq, 0) < 0
    THEN [raised |-> "ValueError", value |-> 0]
    ELSE [raised |-> "", value |-> IntOf(seq, 0)]

\* The loop over header.splitlines(): the value of the first line that
\* starts with `Content-Length:`, and -1 when there is none.
ContentLength(head) ==
    LET lines == SplitLines(head)
        at == { i \in 1..Len(lines) :
                  lines[i] # <<>> /\ lines[i][1] = "L" }
    IN  IF at = {} THEN [raised |-> "", value |-> -1]
        ELSE int(Tail(lines[CHOOSE i \in at : \A j \in at : i <= j]))

\* json.loads: white space around the document is skipped.
RECURSIVE Strip(_)
Strip(seq) ==
    IF seq # <<>> /\ Head(seq) \in {"CR", "LF"} THEN Strip(Tail(seq))
    ELSE IF seq # <<>> /\ seq[Len(seq)] \in {"CR", "LF"}
         THEN Strip(Take(seq, Len(seq) - 1))
         ELSE seq
JsonDoc == <<"{", "}">>
json_loads(bytes) ==
    IF Strip(bytes) = JsonDoc
    THEN [raised |-> "", value |-> Strip(bytes)]
    ELSE [raised |-> "JSONDecodeError", value |-> <<>>]

\* What the peer may answer to a request: over HTTP, a response whose
\* Content-Length is that of its body, or one that announces more than it
\* sends; without HTTP, the bare document.
HttpResponse(n, doc) == HTTP \o CRLF \o <<"L", Digits[n + 1]>> \o CRLFCRLF \o doc
Replies(http) ==
    IF http THEN {HttpResponse(Len(JsonDoc), JsonDoc),
                  HttpResponse(Len(JsonDoc) + 1, JsonDoc)}
    ELSE {JsonDoc}

\* ------------------------------------------------------- the client, steps
InitClient ==
    /\ variant \in Variants
    /\ use_http \in (CASE variant = "ucall_tls" -> {TRUE}
                       [] variant = "sum_tcp"   -> {FALSE}
                       [] OTHER                 -> BOOLEAN)
    /\ sock = None
    /\ socks = [i \in SockIds |-> UnusedSocket]
    /\ nsock = 0
    /\ wire = [i \in SockIds |-> <<>>]
    /\ unanswered = [i \in SockIds |-> 0]
    /\ reply = [i \in SockIds |-> <<>>]
    /\ cpc = "idle"
    /\ cont = ""
    /\ header = <<>>
    /\ body = <<>>
    /\ content_len = -1
    /\ ret = NoReturn
    /\ checked = NoAnswer
    /\ peeked = "none"
    /\ run = NoRun
    /\ inv = NoInvoke
    /\ session = None
    /\ session_resumption \in (IF variant = "ucall_tls" THEN BOOLEAN
                               ELSE {FALSE})
    /\ SerialIdle
    /\ ParallelIdle
    /\ BenchmarkIdle
    /\ CallIdle
    /\ BatchIdle
    /\ ShuffleIdle
    /\ ForkIdle
    /\ RouteIdle
    /\ CodecIdle

AnswerStr(c) ==
    IF c.raised # "" THEN c.raised ELSE IF c.value THEN "True" ELSE "False"

Unread(sk, ss) == IF sk = None THEN <<>> ELSE ss[sk].rcv

\* The position at which the receive of an invoke starts.
RecvStart == CASE variant \in {"ucall", "ucall_tls"} -> "recv4"
               [] variant = "ujrpc" -> "recvall"
               [] OTHER -> "recv"

\* A call of the closed-connection check on its own has its answer c.
Checked(c) ==
    /\ socks' = c.socks
    /\ checked' = AnswerStr(c)
    /\ peeked' = c.peeked
    /\ run' = IF run.n = 0
              THEN [n |-> 1, first |-> AnswerStr(c),
                    unread |-> Unread(sock, socks), handle |-> sock]
              ELSE [run EXCEPT !.n = @ + 1]
    /\ cpc' = "idle"
    /\ cont' = ""
    /\ UNCHANGED <<variant, use_http, session, session_resumption,
                   sock, nsock, wire, unanswered, reply, header,
                   body, content_len, ret, inv>>

Raised(exc) == [raised |-> exc, value |-> <<>>]

\* A mutant: the session is captured whether resumption is enabled or not.
CaptureSession_Always(resume, old, k) == k

\* `if self.session_resumption: self.session = self.sock.session` after the
\* connect of connection k went through; old is self.session before.
CaptureSession(resume, old, k) == IF resume THEN k ELSE old

\* The invoke ends in its send part with exception exc; connects tells how
\* many connections it tried and failed whether the connect raised. The
\* invoke also records what its check saw and answered, the handle the
\* client held when it began, and whether the descriptor of that handle was
\* open when socket.socket() made the new one.
SendRaises(exc, connects, failed) ==
    /\ ret' = Raised(exc)
    /\ cpc' = "idle"
    /\ inv' = [n |-> inv.n + 1, connects |-> connects, failed |-> failed,
               prevFailed |-> inv.failed, peeked |-> peeked',
               answer |-> checked', handle |-> sock,
               staleOpen |-> connects = 1 /\ sock # None /\ socks[sock].fd]
    /\ UNCHANGED <<wire, unanswered, reply, header, body, content_len,
                   session>>

\* sock.send(request) on socket sk went through; the receive starts.
Sent(sk, ss, connects) ==
    /\ socks' = IF variant = "sum_tcp"
                THEN [ss EXCEPT ![sk].timeout = TRUE]
                ELSE ss
    /\ unanswered' = IF ss[sk].st = "open" /\ ~ss[sk].fin /\ ~ss[sk].err
                     THEN [unanswered EXCEPT ![sk] = @ + 1]
                     ELSE unanswered
    /\ session' = IF connects = 1 /\ variant = "ucall_tls"
                  THEN CaptureSession(session_resumption, session, sk)
                  ELSE session
    /\ cpc' = RecvStart
    /\ header' = <<>>
    /\ body' = <<>>
    /\ content_len' = -1
    /\ inv' = [n |-> inv.n + 1, connects |-> connects, failed |-> FALSE,
               prevFailed |-> inv.failed, peeked |-> peeked',
               answer |-> checked', handle |-> sock,
               staleOpen |-> connects = 1 /\ sock # None /\ socks[sock].fd]
    /\ UNCHANGED <<wire, reply, ret>>

\* Client._make_socket and ClientTLS._make_socket once the check said
\* closed: self.sock is bound to the new socket, then connect() runs.
\* make_tcp_socket (ujrpc) and make_socket (ClientSumTCP): the socket is a
\* local of the helper, self.sock is bound when the helper returns.
Connect(ss, ok) ==
    LET new  == nsock + 1
        made == [socket_socket(variant = "ucall_tls") EXCEPT
                    !.offered = IF variant = "ucall_tls" THEN session
                                ELSE None]
    IN  /\ nsock' = new
        /\ IF ok
           THEN /\ sock' = new
                /\ Sent(new, [Release(ss, sock) EXCEPT
                                 ![new] = [made EXCEPT !.st = "open"]], 1)
           ELSE /\ sock' = IF variant \in {"ucall", "ucall_tls"}
                           THEN new ELSE sock
                /\ socks' = IF variant \in {"ucall", "ucall_tls"}
                            THEN [Release(ss, sock) EXCEPT ![new] = made]
                            ELSE [ss EXCEPT ![new] =
                                     [made EXCEPT !.st = "closed",
                                                  !.fd = FALSE]]
                /\ SendRaises("ConnectionRefusedError", 1, TRUE)

\* The send part of an invoke, given the answer c of its check.
Send(c) ==
    /\ checked' = AnswerStr(c)
    /\ peeked' = c.peeked
    /\ run' = NoRun
    /\ cont' = ""
    /\ UNCHANGED <<variant, use_http, session_resumption>>
    /\ IF c.raised # ""
       THEN /\ socks' = c.socks
            /\ SendRaises(c.raised, 0, FALSE)
            /\ UNCHANGED <<sock, nsock>>
       ELSE IF c.value
       THEN /\ nsock < MaxSockets
            /\ \E ok \in BOOLEAN : Connect(c.socks, ok)
       ELSE IF c.socks[sock].st = "done"
       THEN /\ socks' = c.socks
            /\ SendRaises("BrokenPipeError", 0, FALSE)
            /\ UNCHANGED <<sock, nsock>>
       ELSE IF c.socks[sock].err
       THEN /\ socks' = [c.socks EXCEPT ![sock].err = FALSE,
                                        ![sock].st = "done"]
            /\ SendRaises("ECONNRESET", 0, FALSE)
            /\ UNCHANGED <<sock, nsock>>
       ELSE /\ Sent(sock, c.socks, 0)
            /\ UNCHANGED <<sock, nsock>>

\* A call of _socket_is_closed() on its own.
Check ==
    /\ cpc = "idle"
    /\ run.n < MaxChecks
    /\ LET c == IsClosed(variant, sock, socks)
       IN  IF c.blocked
           THEN /\ cpc' = "check_read"
                /\ cont' = "check"
                /\ run' = NoRun
                /\ UNCHANGED <<variant, use_http, session, session_resumption,
                   sock, socks, nsock, wire,
                               unanswered, reply, header, body, content_len, ret,
                               checked, peeked, inv>>
           ELSE Checked(c)
    /\ UNCHANGED notClient

\* client.method(...): _send, up to the point where the receive starts.
Invoke ==
    /\ cpc = "idle"
    /\ inv.n < MaxInvokes
    /\ LET c == IsClosed(variant, sock, socks)
       IN  IF c.blocked
           THEN /\ cpc' = "check_read"
                /\ cont' = "send"
                /\ run' = NoRun
                /\ UNCHANGED <<variant, use_http, session, session_resumption,
                   sock, socks, nsock, wire,
                               unanswered, reply, header, body, content_len, ret,
                               checked, peeked, inv>>
           ELSE Send(c)
    /\ UNCHANGED notClient

\* The read inside ClientTLS._socket_is_closed returns at last.
CheckResume ==
    /\ cpc = "check_read"
    /\ LET c == IsClosed(variant, sock, socks)
       IN  /\ ~c.blocked
           /\ IF cont = "send" THEN Send(c) ELSE Checked(c)
    /\ UNCHANGED notClient

\* The sizes the receive functions pass to sock.recv.
FirstRead   == 4
HeaderChunk == 1024
buffer_size == 4096

\* The invoke ends: its receive returned or raised.
Ends(r, ss) ==
    /\ ret' = r
    /\ socks' = ss
    /\ cpc' = "idle"
    /\ header' = <<>>
    /\ body' = <<>>
    /\ content_len' = -1

\* The receive goes on from the next sock.recv.
GoesOn(pc, h, b, n, ss) ==
    /\ cpc' = pc
    /\ header' = h
    /\ body' = b
    /\ content_len' = n
    /\ socks' = ss
    /\ UNCHANGED ret

\* What no step of a receive changes.
RecvFrame ==
    /\ run' = NoRun
    /\ UNCHANGED <<variant, use_http, session, session_resumption,
                   sock, nsock, wire, unanswered, reply, cont,
                   checked, peeked, inv>>
    /\ UNCHANGED notClient

\* Client._recv of ucall: json.loads of what _receive_all returned.
Returns(bytes, ss) ==
    Ends([raised |-> json_loads(bytes).raised, value |-> bytes], ss)

\* _receive_all after its first loop: split at the blank line, read
\* Content-Length, and go on to the body loop unless nothing is missing.
AfterHeader(h, ss) ==
    LET i    == Find(h, CRLFCRLF)
        bod  == Drop(h, i + 3)
        cl   == ContentLength(Take(h, i - 1))
        left == cl.value - Len(bod)
    IN  IF i = 0 \/ cl.raised # ""
        THEN Ends(Raised("ValueError"), ss)
        ELSE IF left # 0
             THEN GoesOn("recv_body", <<>>, bod, left, ss)
             ELSE Returns(bod, ss)

\* _receive_all: header = sock.recv(4) and what follows it.
RecvFirst ==
    /\ cpc = "recv4"
    /\ LET r == Recv(socks[sock], FirstRead)
           ss == [socks EXCEPT ![sock] = r.sock]
       IN  /\ r.res # "block"
           /\ IF r.res \notin {"data", "eof"}
              THEN Ends(Raised(r.res), ss)
              ELSE IF r.buf = HTTP
                   THEN GoesOn("recv_header", r.buf, <<>>, -1, ss)
                   ELSE GoesOn("recv_body", <<>>, r.buf, -1 - Len(r.buf), ss)
    /\ RecvFrame

\* _receive_all: one chunk = sock.recv(1024) of the header loop.
RecvHeader ==
    /\ cpc = "recv_header"
    /\ LET r == Recv(socks[sock], HeaderChunk)
           ss == [socks EXCEPT ![sock] = r.sock]
           h  == header \o r.buf
       IN  /\ r.res # "block"
           /\ IF r.res \notin {"data", "eof"}
              THEN Ends(Raised(r.res), ss)
              ELSE IF r.res = "eof" \/ Find(h, CRLFCRLF) # 0
                   THEN AfterHeader(h, ss)
                   ELSE GoesOn("recv_header", h, <<>>, -1, ss)
    /\ RecvFrame

\* _receive_all: one chunk = sock.recv(buffer_size) of the body loop.
RecvBody ==
    /\ cpc = "recv_body"
    /\ LET r == Recv(socks[sock], buffer_size)
           ss == [socks EXCEPT ![sock] = r.sock]
           b  == body \o r.buf
           left == content_len - Len(r.buf)
       IN  /\ r.res # "block"
           /\ IF r.res \notin {"data", "eof"}
              THEN Ends(Raised(r.res), ss)
              ELSE IF r.res = "eof" \/ left = 0
                   THEN Returns(b, ss)
                   ELSE GoesOn("recv_body", <<>>, b, left, ss)
    /\ RecvFrame

\* Client._recv of ujrpc on what recvall returned.
UjrpcReturns(bytes, ss) ==
    LET i == Find(bytes, CRLFCRLF)
    IN  IF use_http /\ i = 0
        THEN Ends(Raised("ValueError"), ss)
        ELSE Ends([raised |-> json_loads(IF use_http THEN Drop(bytes, i - 1)
                                         ELSE bytes).raised,
                   value  |-> bytes], ss)

\* recvall of ujrpc: one chunk = sock.recv(buffer_size); the loop ends at
\* the empty chunk.
RecvAll ==
    /\ cpc = "recvall"
    /\ LET r == Recv(socks[sock], buffer_size)
           ss == [socks EXCEPT ![sock] = r.sock]
       IN  /\ r.res # "block"
           /\ IF r.res \notin {"data", "eof"}
              THEN Ends(Raised(r.res), ss)
              ELSE IF r.res = "eof"
                   THEN UjrpcReturns(body, ss)
                   ELSE GoesOn("recvall", <<>>, body \o r.buf, -1, ss)
    /\ RecvFrame

\* parse_response: no byte at all is a timeout.
parse_response(bytes) ==
    IF Len(bytes) = 0 THEN Raised("Timeout")
    ELSE [raised |-> json_loads(bytes).raised, value |-> bytes]

\* ClientSumTCP.recv: the one sock.recv(4096) returns; the timeout is taken
\* off the socket and the bytes are parsed.
RecvOnce ==
    /\ cpc = "recv"
    /\ LET r == Recv(socks[sock], buffer_size)
           ss == [socks EXCEPT ![sock] = r.sock]
       IN  /\ r.res # "block"
           /\ IF r.res \notin {"data", "eof"}
              THEN Ends(Raised(r.res), ss)
              ELSE Ends(parse_response(r.buf),
                        [ss EXCEPT ![sock].timeout = FALSE])
    /\ RecvFrame

\* A sock.recv on a socket with a timeout finds nothing to read in time and
\* raises; the timeout stays on the socket.
RecvTimeout ==
    /\ cpc \in {"recv4", "recv_header", "recv_body", "recvall", "recv"}
    /\ socks[sock].timeout
    /\ Recv(socks[sock], 1).res = "block"
    /\ Ends(Raised("TimeoutError"), socks)
    /\ RecvFrame

\* ---------------------------------------------------------------- the peer
\* What no step of the peer changes.
PeerFrame ==
    /\ run' = NoRun
    /\ UNCHANGED <<variant, use_http, session, session_resumption,
                   sock, nsock, cpc, cont, header, body,
                   content_len, ret, checked, peeked, inv>>
    /\ UNCHANGED notClient

\* The peer writes its answer to a request it received on socket i.
Respond(i) ==
    /\ socks[i].st = "open"
    /\ ~socks[i].fin
    /\ unanswered[i] > 0
    /\ \E r \in Replies(use_http) :
          /\ wire' = [wire EXCEPT ![i] = @ \o r]
          /\ reply' = [reply EXCEPT ![i] = r]
    /\ unanswered' = [unanswered EXCEPT ![i] = @ - 1]
    /\ UNCHANGED socks
    /\ PeerFrame

\* Bytes in flight arrive at socket i: one byte, or over TLS one record.
Deliver(i) ==
    /\ socks[i].st = "open"
    /\ wire[i] # <<>>
    /\ \E k \in (IF socks[i].tls THEN {1, Len(wire[i])} ELSE {1}) :
          /\ wire' = [wire EXCEPT ![i] = Drop(@, k)]
          /\ socks' = [socks EXCEPT
                          ![i].rcv = @ \o Take(wire[i], k),
                          ![i].recs = IF socks[i].tls THEN Append(@, k)
                                      ELSE @]
    /\ UNCHANGED <<unanswered, reply>>
    /\ PeerFrame

\* The peer closes the connection once all it wrote has arrived.
PeerClose(i) ==
    /\ socks[i].st = "open"
    /\ ~socks[i].fin
    /\ ~socks[i].err
    /\ wire[i] = <<>>
    /\ socks' = [socks EXCEPT ![i].fin = TRUE]
    /\ unanswered' = [unanswered EXCEPT ![i] = 0]
    /\ UNCHANGED reply
    /\ UNCHANGED wire
    /\ PeerFrame

\* The peer resets the connection; what was in flight is lost.
PeerReset(i) ==
    /\ socks[i].st = "open"
    /\ ~socks[i].fin
    /\ ~socks[i].err
    /\ socks' = [socks EXCEPT ![i].err = TRUE]
    /\ wire' = [wire EXCEPT ![i] = <<>>]
    /\ unanswered' = [unanswered EXCEPT ![i] = 0]
    /\ UNCHANGED reply
    /\ PeerFrame

\* The steps of the receive of an invoke.
Receive ==
    \/ RecvFirst
    \/ RecvHeader
    \/ RecvBody
    \/ RecvAll
    \/ RecvOnce
    \/ RecvTimeout

NextClient ==
    \/ Check
    \/ Invoke
    \/ CheckResume
    \/ Receive
    \/ \E i \in SockIds : Respond(i)
    \/ \E i \in SockIds : Deliver(i)
    \/ \E i \in SockIds : PeerClose(i)
    \/ \E i \in SockIds : PeerReset(i)

SpecClient == InitClient /\ [][NextClient]_vars

\* ------------------------------------------- a method call, as JSON messages
\* A parameter or result value: an int, a str, a bytes object, a numpy array
\* or a PIL image. enc tells what a bytes object serialises ("" for nothing
\* in particular) and what a str is the base64 text of ("" for plain text,
\* "bytes" for a raw buffer).
Kinds == {"int", "str", "bytes", "ndarray", "image"}
Val(kind, v, enc) == [kind |-> kind, v |-> v, enc |-> enc]
Values == { Val(k, 1, "") : k \in Kinds }

\* np.save(buf, array) and image.save(buf, ...): the bytes of the buffer.
serialise(x) == Val("bytes", x.v, x.kind)
\* base64.b64encode(buffer).decode()
b64encode(x) == Val("str", x.v, IF x.enc = "" THEN "bytes" ELSE x.enc)
\* What json.dumps can write.
JsonNative(x) == x.kind \in {"int", "str"}

\* The loop of Request.pack of ucall from index k on. Assigning to an item
\* of a tuple raises TypeError.
RECURSIVE ucall_pack(_, _, _)
ucall_pack(immutable, vals, k) ==
    IF k > Len(vals) THEN [raised |-> "", vals |-> vals]
    ELSE IF vals[k].kind \in {"ndarray", "image"}
         THEN IF immutable THEN [raised |-> "TypeError", vals |-> vals]
              ELSE ucall_pack(immutable,
                       [vals EXCEPT ![k] = b64encode(serialise(vals[k]))],
                       k + 1)
         ELSE IF vals[k].kind = "bytes"
         THEN IF immutable THEN [raised |-> "TypeError", vals |-> vals]
              ELSE ucall_pack(immutable,
                       [vals EXCEPT ![k] = b64encode(vals[k])], k + 1)
         ELSE ucall_pack(immutable, vals, k + 1)

\* The loop of Client.pack of ujrpc: arrays and images only.
RECURSIVE ujrpc_pack(_, _, _)
ujrpc_pack(immutable, vals, k) ==
    IF k > Len(vals) THEN [raised |-> "", vals |-> vals]
    ELSE IF vals[k].kind \in {"ndarray", "image"}
         THEN IF immutable THEN [raised |-> "TypeError", vals |-> vals]
              ELSE ujrpc_pack(immutable,
                       [vals EXCEPT ![k] = b64encode(serialise(vals[k]))],
                       k + 1)
         ELSE ujrpc_pack(immutable, vals, k + 1)

\* pack of the class at hand.
pack(c, immutable, vals) ==
    IF c = "ucall" THEN ucall_pack(immutable, vals, 1)
    ELSE ujrpc_pack(immutable, vals, 1)

\* json.dumps(request): TypeError for a value JSON cannot hold.
json_dumps(vals) ==
    IF \A k \in 1..Len(vals) : JsonNative(vals[k]) THEN "" ELSE "TypeError"

\* The ids random.randint(1, 2**16) may give, and the terms of a sum.
RandIds == 1..MaxId
Terms   == 1..MaxTerm

\* The parameter names of a call with keyword arguments, in the order given.
KeyNames == <<"a", "b", "c", "d">>
Tuples(n) == UNION { [1..m -> Values] : m \in 0..n }

\* What a caller may pass: client.method(*args, **kwargs), or
\* client({...}) with params a list or a dict and with or without an id.
MethodCalls ==
    { [via |-> "getattr", pos |-> Len(a) # 0, args |-> a,
       keys |-> SubSeq(KeyNames, 1, Len(k)), kwargs |-> k, id |-> None] :
        a \in Tuples(MaxParams), k \in Tuples(MaxParams) }
DirectCalls ==
    { [via |-> "call", pos |-> p, args |-> IF p THEN v ELSE <<>>,
       keys |-> IF p THEN <<>> ELSE SubSeq(KeyNames, 1, Len(v)),
       kwargs |-> IF p THEN <<>> ELSE v, id |-> i] :
        p \in BOOLEAN, v \in Tuples(MaxParams), i \in {None} \cup RandIds }
Inputs == { c \in MethodCalls \cup DirectCalls :
              Len(c.args) + Len(c.kwargs) <= MaxParams }

\* The connection of a client that has made one call before: opened0 and
\* sends0 keep what the connection was when the call at hand began.
UsedConn == [opened |-> 1, sends |-> 1, opened0 |-> 1, sends0 |-> 1]

\* The classes that make method calls.
Classes == {"ucall", "ujrpc", "sum_tcp"}

InitCall ==
    /\ klass \in Classes
    /\ input \in (IF klass = "sum_tcp"
                  THEN { [NoInput EXCEPT !.via = "sum", !.id = i] :
                           i \in RandIds }
                  ELSE Inputs)
    /\ request = NoRequest
    /\ response = NoResponse
    /\ outcome = NoOutcome
    /\ accessed = NoAccess
    /\ conn \in {NoConn, UsedConn}
    /\ mpc = "start"
    /\ SerialIdle
    /\ ParallelIdle
    /\ BenchmarkIdle
    /\ ClientIdle
    /\ BatchIdle
    /\ ShuffleIdle
    /\ ForkIdle
    /\ RouteIdle
    /\ CodecIdle

\* getattr_call with the assertion left out: positional arguments win.
getattr_call_NoAssert(inp) ==
    LET p == IF inp.via = "getattr" THEN Len(inp.args) # 0 ELSE inp.pos
    IN  [raised |-> "", pos |-> p,
         immutable |-> (inp.via = "getattr" /\ p),
         keys |-> IF p THEN <<>> ELSE inp.keys,
         params |-> IF p THEN inp.args ELSE inp.kwargs]

\* call(*args, **kwargs) of __getattr__: the request dict it hands to
\* __call__; a direct call hands over the caller's dict.
getattr_call(inp) ==
    IF inp.via = "getattr" /\ Len(inp.args) # 0 /\ Len(inp.kwargs) # 0
    THEN [raised |-> "AssertionError", pos |-> FALSE, immutable |-> FALSE,
          keys |-> <<>>, params |-> <<>>]
    ELSE LET p == IF inp.via = "getattr" THEN Len(inp.args) # 0 ELSE inp.pos
         IN  [raised |-> "", pos |-> p,
              immutable |-> (inp.via = "getattr" /\ p),
              keys |-> IF p THEN <<>> ELSE inp.keys,
              params |-> IF p THEN inp.args ELSE inp.kwargs]

\* The call ends with exception exc before anything was sent.
CallRaises(exc) ==
    /\ outcome' = [NoOutcome EXCEPT !.raised = exc]
    /\ mpc' = "done"
    /\ UNCHANGED <<request, conn>>

\* The socket is made if there is none, and the request goes out.
SendRequest(r) ==
    /\ request' = r
    /\ conn' = [conn EXCEPT !.opened = IF @ = 0 THEN 1 ELSE @,
                            !.sends = @ + 1]
    /\ mpc' = "sent"
    /\ UNCHANGED outcome

\* client.method(...) or client({...}) of ucall and ujrpc up to sock.send:
\* __getattr__'s call, the id, pack, json.dumps, the socket, the send.
\* ClientSumTCP.send: the request of random_request(identity).
CallSend ==
    /\ mpc = "start"
    /\ IF klass = "sum_tcp"
       THEN \E a \in Terms, b \in Terms :
               SendRequest([NoRequest EXCEPT !.sent = TRUE, !.id = input.id,
                                             !.keys = <<"a", "b">>,
                                             !.a = a, !.b = b])
       ELSE LET d == getattr_call(input)
                q == pack(klass, d.immutable, d.params)
            IN  IF d.raised # "" THEN CallRaises(d.raised)
                ELSE IF q.raised # "" THEN CallRaises(q.raised)
                ELSE IF json_dumps(q.vals) # ""
                     THEN CallRaises(json_dumps(q.vals))
                ELSE \E rid \in RandIds :
                        SendRequest([NoRequest EXCEPT
                                        !.sent = TRUE, !.id = rid,
                                        !.pos = d.pos, !.keys = d.keys,
                                        !.params = q.vals])
    /\ UNCHANGED <<klass, input, response, accessed>>
    /\ UNCHANGED notCall

\* What the peer may answer: with or without a jsonrpc member (or a falsy
\* one), with any id or none, with a result, an error, or both.
Results == {Val("int", 2, ""), Val("int", 3, ""), Val("str", 1, "")}
           \cup { Val("str", 1, e) :
                    e \in {"bytes", "ndarray", "image", "ndarray+image",
                           "magic", "loose"} }
Responses ==
    { [got |-> TRUE, jsonrpc |-> j, id |-> i, has |-> h,
       result |-> IF "result" \in h THEN r ELSE NoValue,
       error |-> IF "error" \in h THEN 1 ELSE 0] :
        j \in {"2.0", "", "missing"}, i \in {None} \cup RandIds,
        h \in {{"result"}, {"error"}, {"result", "error"}}, r \in Results }

\* The peer's answer arrives whole.
CallAnswer ==
    /\ mpc = "sent"
    /\ response' \in Responses
    /\ mpc' = "answered"
    /\ UNCHANGED <<klass, input, request, outcome, accessed, conn>>
    /\ UNCHANGED notCall

\* base64.b64decode(x) in its default, non-validating mode: the bytes a
\* base64 text stands for; characters outside the alphabet are dropped
\* first, so a text that is no base64 ("loose") may decode as well; a text
\* whose length does not fit raises, and so does anything that is no str.
b64decode(x) ==
    IF x.kind = "str" /\ x.enc # ""
    THEN [raised |-> "",
          value |-> Val("bytes", x.v,
                        IF x.enc \in {"bytes", "loose"} THEN "" ELSE x.enc)]
    ELSE [raised |-> IF x.kind = "str" THEN "binascii.Error" ELSE "TypeError",
          value |-> NoValue]
\* bin[:6] == b'\x93NUMPY': a saved array, a buffer that is also an image
\* file, or bytes that only begin like a saved array.
MagicPrefix(b) ==
    b.kind = "bytes" /\ b.enc \in {"ndarray", "ndarray+image", "magic"}
\* np.load(BytesIO(b)) and Image.open(BytesIO(b)).
np_load(b) ==
    IF b.kind = "bytes" /\ b.enc \in {"ndarray", "ndarray+image"}
    THEN [raised |-> "", value |-> Val("ndarray", b.v, "")]
    ELSE [raised |-> "ValueError", value |-> NoValue]
Image_open(b) ==
    IF b.kind = "bytes" /\ b.enc \in {"image", "ndarray+image"}
    THEN [raised |-> "", value |-> Val("image", b.v, "")]
    ELSE [raised |-> "UnidentifiedImageError", value |-> NoValue]

\* Client.unpack of ujrpc: np.load when the bytes begin with the magic
\* prefix (its exception leaves unpack), else an image when the bytes open
\* as one, else the bytes as they are.
unpack(b) ==
    IF MagicPrefix(b) THEN np_load(b)
    ELSE IF Image_open(b).raised = "" THEN Image_open(b)
    ELSE [raised |-> "", value |-> b]

\* The rest of Client.__call__ of ujrpc: a result that decodes and unpacks
\* is replaced, any exception on the way is swallowed, and the response dict
\* is returned.
ujrpc_result(res) ==
    LET d == b64decode(res.result)
        u == unpack(d.value)
    IN  IF "result" \in res.has /\ d.raised = "" /\ u.raised = ""
        THEN [res EXCEPT !.result = u.value]
        ELSE res

\* int(x) of a JSON value.
int_of(x) == IF x.kind = "int" THEN "" ELSE "ValueError"

\* ClientSumTCP.recv after parse_response: the statements in their order.
sum_recv(res, identity, expected) ==
    IF "result" \notin res.has THEN "KeyError"
    ELSE IF int_of(res.result) # "" THEN int_of(res.result)
    ELSE IF res.jsonrpc = "missing" THEN "KeyError"
    ELSE IF res.jsonrpc = "" THEN "AssertionError"
    ELSE IF res.id = None THEN "KeyError"
    ELSE IF res.id # identity THEN "AssertionError"
    ELSE IF expected # res.result.v THEN "AssertionError"
    ELSE ""

\* _recv and the return of __call__; recv of ClientSumTCP.
CallRecv ==
    /\ mpc = "answered"
    /\ outcome' =
          CASE klass = "ucall" ->
                 [NoOutcome EXCEPT !.returned = TRUE, !.data = response]
            [] klass = "ujrpc" ->
                 [NoOutcome EXCEPT !.returned = TRUE,
                                   !.data = ujrpc_result(response)]
            [] OTHER ->
                 LET e == sum_recv(response, input.id, request.a + request.b)
                 IN  IF e # "" THEN [NoOutcome EXCEPT !.raised = e]
                     ELSE [NoOutcome EXCEPT !.returned = TRUE,
                                            !.data = response]
    /\ mpc' = "done"
    /\ UNCHANGED <<klass, input, request, response, accessed, conn>>
    /\ UNCHANGED notCall

\* Response.json, .bytes, .numpy and .image of ucall on the data d.
Accessors == {"json", "bytes", "numpy", "image"}
Response_json(d) ==
    IF "error" \in d.has
    THEN [raised |-> "RuntimeError", carries |-> d.error, value |-> NoValue]
    ELSE IF "result" \notin d.has
    THEN [raised |-> "KeyError", carries |-> 0, value |-> NoValue]
    ELSE [raised |-> "", carries |-> 0, value |-> d.result]
Response_bytes(d) ==
    LET j == Response_json(d)
    IN  IF j.raised # "" THEN j
        ELSE [raised |-> b64decode(j.value).raised, carries |-> 0,
              value |-> b64decode(j.value).value]
Response_numpy(d) ==
    LET b == Response_bytes(d)
    IN  IF b.raised # "" THEN b
        ELSE [raised |-> np_load(b.value).raised, carries |-> 0,
              value |-> np_load(b.value).value]
Response_image(d) ==
    LET b == Response_bytes(d)
    IN  IF b.raised # "" THEN b
        ELSE [raised |-> Image_open(b.value).raised, carries |-> 0,
              value |-> Image_open(b.value).value]
Access(name, d) ==
    CASE name = "json"  -> Response_json(d)
      [] name = "bytes" -> Response_bytes(d)
      [] name = "numpy" -> Response_numpy(d)
      [] OTHER          -> Response_image(d)

\* The caller reads one accessor of the Response a ucall call returned.
CallAccess ==
    /\ mpc = "done"
    /\ klass = "ucall"
    /\ outcome.returned
    /\ \E name \in Accessors :
          LET r == Access(name, outcome.data)
          IN  accessed' = [name |-> name, raised |-> r.raised,
                           carries |-> r.carries, value |-> r.value,
                           returned |-> (r.raised = "")]
    /\ UNCHANGED <<klass, input, request, response, outcome, conn, mpc>>
    /\ UNCHANGED notCall

NextCall ==
    \/ CallSend
    \/ CallAnswer
    \/ CallRecv
    \/ CallAccess

SpecCall == InitCall /\ [][NextCall]_vars

\* ----------------------------------------------- ClientSumBatchesTCP
\* The batch of benchmark/ujrpc_client.py: eight entries, the second one
\* without an id; and the length its recv asserts and returns.
BenchmarkBatch == <<TRUE, FALSE, TRUE, TRUE, TRUE, TRUE, TRUE, TRUE>>
BenchmarkLength == 7

\* The batch of test_with_batches_wcc: batch_size entries, each with an id.
TestsBatch(n) == [k \in 1..n |-> TRUE]

InitBatch ==
    /\ bvariant \in {"benchmark", "tests"}
    /\ \E a \in Terms, b \in Terms, n \in 1..MaxItems :
          /\ batch = [ids |-> IF bvariant = "benchmark" THEN BenchmarkBatch
                              ELSE TestsBatch(n),
                      expected |-> a + b]
          /\ length = IF bvariant = "benchmark" THEN BenchmarkLength ELSE n
    /\ bresponse = NoBatchResponse
    /\ boutcome = NoBatchOutcome
    /\ batpc = "start"
    /\ SerialIdle
    /\ ParallelIdle
    /\ BenchmarkIdle
    /\ ClientIdle
    /\ CallIdle
    /\ ShuffleIdle
    /\ ForkIdle
    /\ RouteIdle
    /\ CodecIdle

\* send: the batch goes out in one sock.send.
BatchSend ==
    /\ batpc = "start"
    /\ batpc' = "sent"
    /\ UNCHANGED <<bvariant, batch, length, bresponse, boutcome>>
    /\ UNCHANGED notBatch

\* An entry of a response array: its result (-1 when it has none, as an
\* error entry) and its jsonrpc member.
Entries(e) ==
    { [result |-> r, jsonrpc |-> j] :
        r \in {e, e + 1, -1}, j \in {"2.0"} }
    \cup { [result |-> e, jsonrpc |-> j] : j \in {"", "missing"} }

\* The JSON values the peer may answer with: an array of up to MaxItems
\* entries (recv reads the first and the last; those between are results),
\* or a value that is no array.
ArrayOf(n, head, tail, e) ==
    [k \in 1..n |-> IF k = 1 THEN head
                    ELSE IF k = n THEN tail
                    ELSE [result |-> e, jsonrpc |-> "2.0"]]
BatchResponses(e) ==
    { [shape |-> "array", items |-> <<>>] }
    \cup { [shape |-> "array", items |-> <<f>>] : f \in Entries(e) }
    \cup { [shape |-> "array", items |-> ArrayOf(n, f, l, e)] :
             n \in 2..MaxItems, f \in Entries(e), l \in Entries(e) }
    \cup { [shape |-> sh, items |-> <<>>] :
             sh \in {"object", "number", "string", "null"} }

BatchAnswer ==
    /\ batpc = "sent"
    /\ bresponse' \in BatchResponses(batch.expected)
    /\ batpc' = "answered"
    /\ UNCHANGED <<bvariant, batch, length, boutcome>>
    /\ UNCHANGED notBatch

\* int(response[k]['result']) for k = 0 or -1: what it raises, if anything.
item_result(res, k) ==
    CASE res.shape = "object" -> "KeyError"
      [] res.shape \in {"number", "string", "null"} -> "TypeError"
      [] res.shape = "array" /\ Len(res.items) = 0 -> "IndexError"
      [] res.shape = "array" /\ Len(res.items) # 0
            /\ res.items[k].result = -1 -> "KeyError"
      [] OTHER -> ""

\* ClientSumBatchesTCP.recv after parse_response, statement by statement.
batch_recv(res, len, expected) ==
    LET n == Len(res.items)
    IN  IF item_result(res, 1) # "" THEN item_result(res, 1)
        ELSE IF item_result(res, n) # "" THEN item_result(res, n)
        ELSE IF res.shape # "array" THEN "AssertionError"
        ELSE IF n # len THEN "AssertionError"
        ELSE IF res.items[1].jsonrpc = "missing" THEN "KeyError"
        ELSE IF res.items[1].jsonrpc = "" THEN "AssertionError"
        ELSE IF expected # res.items[1].result THEN "AssertionError"
        ELSE IF expected # res.items[n].result THEN "AssertionError"
        ELSE ""

BatchRecv ==
    /\ batpc = "answered"
    /\ LET e == batch_recv(bresponse, length, batch.expected)
       IN  boutcome' = IF e # ""
                       THEN [NoBatchOutcome EXCEPT !.raised = e]
                       ELSE [NoBatchOutcome EXCEPT !.returned = TRUE,
                                                   !.value = length]
    /\ batpc' = "done"
    /\ UNCHANGED <<bvariant, batch, length, bresponse>>
    /\ UNCHANGED notBatch

NextBatch ==
    \/ BatchSend
    \/ BatchAnswer
    \/ BatchRecv

SpecBatch == InitBatch /\ [][NextBatch]_vars

\* --------------------------------- clients sending and receiving, shuffled
\* test_concurrency and shuffled_n_identities: the clients carry the
\* identities of range(count_connections), one each; they are written from
\* 1 here, 0 being the id member that is absent.
ClientIds == 1..MaxClients
identity(c) == c

NoRead == <<>>
FreshClient == [sock |-> None, timeout |-> FALSE, expected |-> -1, seq |-> 0,
                at |-> "idle", read |-> NoRead, raised |-> "",
                returned |-> FALSE, nth |-> 0, mth |-> 0]
FreshConn == [reqs |-> <<>>, resps |-> <<>>]

InitShuffle ==
    /\ clients = [c \in ClientIds |-> FreshClient]
    /\ conns = [k \in ClientIds |-> FreshConn]
    /\ nconn = 0
    /\ cycle = 1
    /\ SerialIdle
    /\ ParallelIdle
    /\ BenchmarkIdle
    /\ ClientIdle
    /\ CallIdle
    /\ BatchIdle
    /\ ForkIdle
    /\ RouteIdle
    /\ CodecIdle

\* The place of the next send, and of the next receive, in its round.
NextSent == Cardinality({d \in ClientIds : clients[d].at # "idle"}) + 1
NextReceived == Cardinality({d \in ClientIds : clients[d].at = "done"}) + 1

\* make_socket with one connection shared by every client.
make_socket_Shared(n) == 1

\* make_socket(): a connection of the client's own; n were made before.
make_socket(n) == n + 1

\* socket_is_closed(self.sock) as the sending client sees it; the peer
\* keeps its connections open.
sum_socket_is_closed(me) ==
    IF me.sock = None THEN "True"
    ELSE IF conns[me.sock].resps # <<>> THEN "False"
    ELSE IF me.timeout THEN "TimeoutError"
    ELSE "False"

\* The response of the peer to request q: the id echoed, the terms summed.
ResponseTo(q) ==
    [got |-> TRUE, jsonrpc |-> "2.0", id |-> q.id, has |-> {"result"},
     result |-> Val("int", q.a + q.b, ""), error |-> 0,
     to |-> q.from, seq |-> q.seq]

\* ClientSumTCP.send of client c.
ShuffleSend(c) ==
    /\ clients[c].at = "idle"
    /\ LET me == clients[c]
           closed == sum_socket_is_closed(me)
       IN  IF closed = "TimeoutError"
           THEN /\ clients' = [clients EXCEPT ![c].at = "sent",
                                              ![c].raised = closed,
                                              ![c].nth = NextSent]
                /\ UNCHANGED <<conns, nconn>>
           ELSE \E a \in Terms, b \in Terms :
                   LET k == IF closed = "True" THEN make_socket(nconn)
                            ELSE me.sock
                   IN  /\ clients' = [clients EXCEPT
                              ![c].sock = k, ![c].at = "sent",
                              ![c].raised = "", ![c].expected = a + b,
                              ![c].seq = cycle, ![c].nth = NextSent]
                       /\ conns' = [conns EXCEPT ![k].reqs =
                              Append(@, [id |-> identity(c), a |-> a,
                                         b |-> b, from |-> c,
                                         seq |-> cycle])]
                       /\ nconn' = IF closed = "True" THEN nconn + 1
                                   ELSE nconn
    /\ UNCHANGED cycle
    /\ UNCHANGED notShuffle

\* The peer answers the oldest request of connection k.
ShuffleAnswer(k) ==
    /\ conns[k].reqs # <<>>
    /\ conns' = [conns EXCEPT ![k].reqs = Tail(@),
                              ![k].resps = Append(@, ResponseTo(Head(conns[k].reqs)))]
    /\ UNCHANGED <<clients, nconn, cycle>>
    /\ UNCHANGED notShuffle

\* ClientSumTCP.recv of client c, once every client has sent: the bytes on
\* its socket, or the timeout; two responses at once do not parse.
ShuffleRecv(c) ==
    /\ \A d \in ClientIds : clients[d].at # "idle"
    /\ clients[c].at = "sent"
    /\ LET me == clients[c]
           got == conns[me.sock].resps
           e == IF me.sock = None THEN "AttributeError"
                ELSE IF got = <<>> THEN "TimeoutError"
                ELSE IF Len(got) > 1 THEN "JSONDecodeError"
                ELSE sum_recv(got[1], identity(c), me.expected)
       IN  /\ clients' = [clients EXCEPT
                  ![c].at = "done", ![c].read = got, ![c].raised = e,
                  ![c].returned = (e = ""), ![c].mth = NextReceived,
                  ![c].timeout = (got = <<>>)]
           /\ conns' = [conns EXCEPT ![me.sock].resps = <<>>]
    /\ UNCHANGED <<nconn, cycle>>
    /\ UNCHANGED notShuffle

\* The next round starts when every client has received.
ShuffleCycle ==
    /\ cycle < MaxCycles
    /\ \A d \in ClientIds : clients[d].at = "done"
    /\ cycle' = cycle + 1
    /\ clients' = [d \in ClientIds |->
                      [clients[d] EXCEPT !.at = "idle", !.read = NoRead,
                                         !.raised = "", !.returned = FALSE,
                                         !.nth = 0, !.mth = 0]]
    /\ UNCHANGED <<conns, nconn>>
    /\ UNCHANGED notShuffle

NextShuffle ==
    \/ \E c \in ClientIds : ShuffleSend(c)
    \/ \E k \in ClientIds : ShuffleAnswer(k)
    \/ \E c \in ClientIds : ShuffleRecv(c)
    \/ ShuffleCycle

SpecShuffle == InitShuffle /\ [][NextShuffle]_vars

\* ------------------------------- arrays and images through pack and unpack
\* An array has a dtype, a shape and its items; an image has the format of
\* the file it was read from (none for one made in memory), a mode and its
\* pixels.
Dtypes == {"uint8", "<f8", ">f8", "object"}
Shapes == {<<>>, <<2>>, <<1, 2>>}
Formats == {"", "TIFF", "PNG", "JPEG"}
Modes == {"L", "RGB", "RGBA"}
Arrays == { [NoPayload EXCEPT !.kind = "ndarray", !.dtype = d, !.shape = sh,
                              !.data = x] :
              d \in Dtypes, sh \in Shapes, x \in 0..MaxElement }
\* The modes a file of a format can hold: an image read from a JPEG file
\* has no alpha channel.
ModesOf(f) == IF f = "JPEG" THEN Modes \ {"RGBA"} ELSE Modes
Images == UNION { { [NoPayload EXCEPT !.kind = "image", !.format = f,
                                      !.mode = m, !.data = x] :
                      m \in ModesOf(f), x \in 0..MaxPixel } :
                  f \in Formats }

\* np.save(buf, array): the .npy file holds the dtype, the shape and the
\* items; an array of objects is pickled into it.
numpy_save(a) ==
    [NoPacked EXCEPT !.container = "npy", !.dtype = a.dtype,
                     !.shape = a.shape, !.data = a.data,
                     !.pickled = (a.dtype = "object")]

\* What a JPEG file keeps of the pixels: the encoder quantises them.
Quantised(x) == 2 * (x \div 2)

\* `if not image.format: image.format = 'tiff'` and
\* image.save(buf, image.format, compression='raw', compression_level=0):
\* the file is written in the image's own format. A TIFF or PNG file keeps
\* the mode and the pixels; a JPEG file has no alpha channel (OSError) and
\* keeps the quantised pixels, whatever the compression arguments say.
PIL_save(img) ==
    LET fmt == IF img.format = "" THEN "TIFF" ELSE img.format
    IN  IF fmt = "JPEG" /\ img.mode = "RGBA"
        THEN [NoPacked EXCEPT !.raised = "OSError"]
        ELSE [NoPacked EXCEPT !.container = fmt, !.mode = img.mode,
                              !.data = IF fmt = "JPEG"
                                       THEN Quantised(img.data)
                                       ELSE img.data]

\* base64.b64encode(bytes).decode() and base64.b64decode(text).
b64_text(f) == IF f.raised # "" THEN f ELSE [f EXCEPT !.text = TRUE]
b64_bytes(f) ==
    IF f.text THEN [f EXCEPT !.text = FALSE]
    ELSE [NoPacked EXCEPT !.raised = "TypeError"]

\* Request._pack_numpy and Request._pack_pillow of ucall, the two branches
\* of Client.pack of ujrpc (the same statements), and Server.pack.
pack_numpy(array) == b64_text(numpy_save(array))
pack_pillow(image) == b64_text(PIL_save(image))
Server_pack(res) ==
    IF res.kind = "ndarray" THEN numpy_save(res) ELSE PIL_save(res)

\* np.load(buf, allow_pickle): the array of a .npy file; pickled items need
\* allow_pickle; bytes that are no .npy file are tried as a pickle.
numpy_load(f, allow_pickle) ==
    IF f.container # "npy"
    THEN [NoUnpacked EXCEPT !.raised = IF allow_pickle THEN "UnpicklingError"
                                       ELSE "ValueError"]
    ELSE IF f.pickled /\ ~allow_pickle
    THEN [NoUnpacked EXCEPT !.raised = "ValueError"]
    ELSE [NoUnpacked EXCEPT !.kind = "ndarray",
              !.value = [NoPayload EXCEPT !.kind = "ndarray",
                            !.dtype = f.dtype, !.shape = f.shape,
                            !.data = f.data]]

\* Image.open(buf): the image of a file in a format PIL knows.
PIL_open(f) ==
    IF f.container \in Formats \ {""}
    THEN [NoUnpacked EXCEPT !.kind = "image",
              !.value = [NoPayload EXCEPT !.kind = "image",
                            !.format = f.container, !.mode = f.mode,
                            !.data = f.data]]
    ELSE [NoUnpacked EXCEPT !.raised = "UnidentifiedImageError"]

\* The bytes as they are.
AsBytes(f) ==
    [NoUnpacked EXCEPT !.kind = "bytes",
         !.value = [NoPayload EXCEPT !.kind = "bytes", !.dtype = f.dtype,
                       !.shape = f.shape, !.format = f.container,
                       !.mode = f.mode, !.data = f.data]]

\* Server.unpack(arg, hint): by the hint of the parameter; a hint that is
\* none of the four falls off the end of the function, which returns None.
Hints == {"bytes", "ndarray", "Image", "object"}
Server_unpack(arg, h) ==
    IF h = "bytes" THEN AsBytes(arg)
    ELSE IF h = "ndarray" THEN numpy_load(arg, TRUE)
    ELSE IF h = "Image" THEN PIL_open(arg)
    ELSE [NoUnpacked EXCEPT !.kind = "None"]

\* Client.unpack of ujrpc on the bytes of a file: by the first six bytes,
\* then by whether PIL opens them.
Client_unpack(f) ==
    IF f.container = "npy" THEN numpy_load(f, TRUE)
    ELSE IF PIL_open(f).raised = "" THEN PIL_open(f)
    ELSE AsBytes(f)

\* Response.numpy and Response.image of ucall on the base64 text of a
\* result.
ResponseAs(name, t) ==
    LET b == b64_bytes(t)
    IN  IF b.raised # "" THEN [NoUnpacked EXCEPT !.raised = b.raised]
        ELSE IF name = "numpy" THEN numpy_load(b, TRUE)
        ELSE PIL_open(b)

\* The four ways a binary value travels: as a parameter from either client
\* to a routed function, and as a result to either client.
Ways == {"ucall_request", "ujrpc_request", "ucall_response",
         "ujrpc_response"}
Readers(w) ==
    IF w \in {"ucall_request", "ujrpc_request"} THEN Hints
    ELSE IF w = "ucall_response" THEN {"numpy", "image"}
    ELSE {"sniff"}

InitCodec ==
    /\ payload \in Arrays \cup Images
    /\ way \in Ways
    /\ sent_hint \in Readers(way)
    /\ packed = NoPacked
    /\ unpacked = NoUnpacked
    /\ kpc = "start"
    /\ SerialIdle
    /\ ParallelIdle
    /\ BenchmarkIdle
    /\ ClientIdle
    /\ CallIdle
    /\ BatchIdle
    /\ ShuffleIdle
    /\ ForkIdle
    /\ RouteIdle

\* pack on the sending side; the result of a routed function reaches the
\* client as base64 text.
CodecPack ==
    /\ kpc = "start"
    /\ LET p == IF way \in {"ucall_request", "ujrpc_request"}
                THEN IF payload.kind = "ndarray" THEN pack_numpy(payload)
                     ELSE pack_pillow(payload)
                ELSE b64_text(Server_pack(payload))
       IN  /\ packed' = p
           /\ unpacked' = [NoUnpacked EXCEPT !.raised = p.raised]
           /\ kpc' = IF p.raised # "" THEN "done" ELSE "packed"
    /\ UNCHANGED <<payload, way, sent_hint>>
    /\ UNCHANGED notCodec

\* unpack on the receiving side; a parameter reaches the routed function's
\* wrapper as the bytes of the base64 text.
CodecUnpack ==
    /\ kpc = "packed"
    /\ unpacked' =
          CASE way \in {"ucall_request", "ujrpc_request"} ->
                 Server_unpack(b64_bytes(packed), sent_hint)
            [] way = "ucall_response" -> ResponseAs(sent_hint, packed)
            [] OTHER -> Client_unpack(b64_bytes(packed))
    /\ kpc' = "done"
    /\ UNCHANGED <<payload, way, sent_hint, packed>>
    /\ UNCHANGED notCodec

NextCodec ==
    \/ CodecPack
    \/ CodecUnpack

SpecCodec == InitCodec /\ [][NextCodec]_vars

\* ------------------------------------ Server.route and the wrapper it makes
\* A function has parameters a, b, ... in this order, each with a type hint
\* or none (""), and a return hint or none.
ParamHints == {"", "int", "bytes", "ndarray", "Image"}
ReturnHints == {"", "int", "ndarray"}
Funcs == { [hints |-> h, ret |-> r] :
             h \in UNION { [1..n -> ParamHints] : n \in 1..MaxParams },
             r \in ReturnHints }

\* An argument of the call: a bytes object (the file it holds) or a value
\* that is no bytes object.
Plain(v) == [isbytes |-> FALSE, v |-> v, file |-> NoPacked]
Bytes(f) == [isbytes |-> TRUE, v |-> 0, file |-> f]
SampleArray == [NoPayload EXCEPT !.kind = "ndarray", !.dtype = "uint8",
                                 !.shape = <<2>>, !.data = 1]
SampleImage == [NoPayload EXCEPT !.kind = "image", !.mode = "RGB",
                                 !.data = 1]
\* What a caller passes for a parameter of hint h: a number where the hint
\* is int or absent, a buffer for bytes, a saved array for np.ndarray and
\* an image file for Image.Image.
ArgsFor(h) ==
    CASE h \in {"", "int"} -> { Plain(v) : v \in Terms }
      [] h = "bytes"   -> { Bytes([NoPacked EXCEPT !.container = "raw",
                                                   !.data = 1]) }
      [] h = "ndarray" -> { Bytes(numpy_save(SampleArray)) }
      [] OTHER         -> { Bytes(PIL_save(SampleImage)) }

\* get_type_hints(func): the annotated parameters in their order, then the
\* return annotation if there is one.
get_type_hints(f) ==
    SelectSeq([i \in 1..Len(f.hints) |->
                  [name |-> KeyNames[i], hint |-> f.hints[i]]],
              LAMBDA p : p.hint # "")
    \o (IF f.ret # "" THEN <<[name |-> "return", hint |-> f.ret]>>
        ELSE <<>>)

\* only_native_types(hints): every hint is a type object, and a type object
\* is no instance of bool, int, float or str, so the loop returns False at
\* the first hint; it returns True of no hints at all.
only_native_types(hints) == Len(hints) = 0

\* One iteration of either loop of the wrapper: a bytes argument goes
\* through unpack with the hint h, another argument is appended as it is.
Converted(arg, h) ==
    IF arg.isbytes
    THEN [unchanged |-> FALSE, arg |-> arg,
          out |-> Server_unpack(arg.file, h)]
    ELSE [unchanged |-> TRUE, arg |-> arg, out |-> NoUnpacked]

\* hints[kw]: the hint of that name, "KeyError" when there is none.
HintNamed(hints, kw) ==
    IF \E i \in 1..Len(hints) : hints[i].name = kw
    THEN hints[CHOOSE i \in 1..Len(hints) : hints[i].name = kw].hint
    ELSE "KeyError"

\* The first exception of a list of conversions, "" when there is none.
FirstRaised(seq) ==
    IF \A i \in 1..Len(seq) : seq[i] = ""
    THEN ""
    ELSE seq[CHOOSE i \in 1..Len(seq) :
                 seq[i] # "" /\ \A j \in 1..(i - 1) : seq[j] = ""]

\* wrapper(*args, **kwargs) up to the call of func: zip(args,
\* hints.values()) pairs the i-th argument with the i-th hint and ends with
\* the shorter of the two; a keyword argument looks its hint up by name,
\* only when it is a bytes object.
wrapper(hints, args, kwargs) ==
    LET n == Min(Len(args), Len(hints))
        new_args == [i \in 1..n |-> Converted(args[i], hints[i].hint)]
        new_kwargs ==
            [j \in 1..Len(kwargs) |->
                [name |-> kwargs[j].name,
                 elem |-> Converted(kwargs[j].arg,
                                    HintNamed(hints, kwargs[j].name))]]
        excs == [i \in 1..n |-> new_args[i].out.raised]
                \o [j \in 1..Len(kwargs) |->
                      IF kwargs[j].arg.isbytes
                         /\ HintNamed(hints, kwargs[j].name) = "KeyError"
                      THEN "KeyError"
                      ELSE new_kwargs[j].elem.out.raised]
    IN  [raised |-> FirstRaised(excs), args |-> new_args,
         kwargs |-> new_kwargs]

\* func(*new_args, **new_kwargs): a call that leaves a parameter without
\* an argument raises TypeError.
call_func(f, w) ==
    IF w.raised = "" /\ Len(w.args) + Len(w.kwargs) # Len(f.hints)
    THEN [w EXCEPT !.raised = "TypeError"]
    ELSE w

InitRoute ==
    /\ server \in {"Server", "_Server"}
    /\ \E f \in Funcs, p \in 0..MaxParams :
          /\ p <= Len(f.hints)
          /\ \E all \in [1..Len(f.hints) -> UNION { ArgsFor(h) :
                                                     h \in ParamHints }] :
                /\ \A i \in 1..Len(f.hints) : all[i] \in ArgsFor(f.hints[i])
                /\ func = f
                /\ wargs = SubSeq(all, 1, p)
                /\ wkwargs = [j \in 1..(Len(f.hints) - p) |->
                                 [name |-> KeyNames[p + j],
                                  arg |-> all[p + j]]]
    /\ routed = ""
    /\ passed = NoPassed
    /\ rpc = "start"
    /\ SerialIdle
    /\ ParallelIdle
    /\ BenchmarkIdle
    /\ ClientIdle
    /\ CallIdle
    /\ BatchIdle
    /\ ShuffleIdle
    /\ ForkIdle
    /\ CodecIdle

\* Server.route(func) hands func itself to the native server when
\* only_native_types says so, and the wrapper otherwise; _Server.route
\* always hands over the wrapper.
Route ==
    /\ rpc = "start"
    /\ routed' = IF server = "Server"
                    /\ only_native_types(get_type_hints(func))
                 THEN "func" ELSE "wrapper"
    /\ rpc' = "routed"
    /\ UNCHANGED <<server, func, wargs, wkwargs, passed>>
    /\ UNCHANGED notRoute

\* The native server calls what it was given with the arguments of the
\* request.
RouteCall ==
    /\ rpc = "routed"
    /\ passed' =
          IF routed = "func"
          THEN [raised |-> "",
                args |-> [i \in 1..Len(wargs) |->
                             [unchanged |-> TRUE, arg |-> wargs[i],
                              out |-> NoUnpacked]],
                kwargs |-> [j \in 1..Len(wkwargs) |->
                               [name |-> wkwargs[j].name,
                                elem |-> [unchanged |-> TRUE,
                                          arg |-> wkwargs[j].arg,
                                          out |-> NoUnpacked]]]]
          ELSE call_func(func, wrapper(get_type_hints(func), wargs, wkwargs))
    /\ rpc' = "called"
    /\ UNCHANGED <<server, func, wargs, wkwargs, routed>>
    /\ UNCHANGED notRoute

NextRoute ==
    \/ Route
    \/ RouteCall

SpecRoute == InitRoute /\ [][NextRoute]_vars

\* C37: the wrapper calls the function with as many positional and keyword
\* arguments as it received, in their order; an argument that is no bytes
\* object is passed as it is, and a bytes argument is passed as unpack
\* gives it for the hint of the parameter it is bound to, never left out
\* and never None.
C37_ArgumentsPreserved ==
    (rpc = "called" /\ routed = "wrapper") =>
        /\ passed.raised = ""
        /\ Len(passed.args) = Len(wargs)
        /\ Len(passed.kwargs) = Len(wkwargs)
        /\ \A i \in 1..Len(wargs) :
              /\ passed.args[i] = Converted(wargs[i], func.hints[i])
              /\ passed.args[i].out.kind # "None"
        /\ \A j \in 1..Len(wkwargs) :
              /\ passed.kwargs[j].name = wkwargs[j].name
              /\ passed.kwargs[j].elem =
                    Converted(wkwargs[j].arg, func.hints[Len(wargs) + j])
              /\ passed.kwargs[j].elem.out.kind # "None"

\* The reader takes the value for what it is: the parameter's hint, or the
\* accessor read, names the type of the value.
ReadAsSent ==
    \/ sent_hint = "sniff"
    \/ payload.kind = "ndarray" /\ sent_hint \in {"ndarray", "numpy"}
    \/ payload.kind = "image" /\ sent_hint \in {"Image", "image"}

\* C31: unpacking the packed form of an array or image gives the value
\* back: an array of the same dtype, shape and items, an image of the same
\* mode and pixels, on each of the four ways.
C31_RoundTrip ==
    (kpc = "done" /\ ReadAsSent) =>
        /\ unpacked.raised = ""
        /\ unpacked.kind = payload.kind
        /\ unpacked.value.dtype = payload.dtype
        /\ unpacked.value.shape = payload.shape
        /\ unpacked.value.mode = payload.mode
        /\ unpacked.value.data = payload.data

\* C32: an exception raised inside an invoke reaches the caller: when
\* decoding the result of a response raises, in base64.b64decode or in
\* unpack, the invoke ends with that exception and returns nothing.
C32_NothingSwallowed ==
    (mpc = "done" /\ klass = "ujrpc" /\ response.got
       /\ "result" \in response.has) =>
        LET d == b64decode(response.result)
            u == unpack(d.value)
            e == IF d.raised # "" THEN d.raised
                 ELSE u.raised
        IN  e # "" => (outcome.raised = e /\ ~outcome.returned)

\* C35: on a connection used again, the response that recv parses and
\* checks against `expected` is the response to the request the client
\* sent last, also when an earlier recv on the connection timed out: a late
\* response to an earlier request is never checked in its place.
C35_FreshResponseOnly ==
    \A c \in ClientIds :
        (clients[c].at = "done" /\ Len(clients[c].read) = 1) =>
            clients[c].read[1].seq = clients[c].seq

\* The connection most recently established before socket k was made, if
\* any: a socket whose connect() raised is left as it was created.
Established(i) == socks[i].st \notin {"unused", "created"}
EstablishedBefore(k) ==
    LET S == {i \in 1..(k - 1) : Established(i)}
    IN  IF S = {} THEN None ELSE CHOOSE i \in S : \A j \in S : j <= i

C22_LoopIsBounded ==
    /\ [](/\ calls <= requests_count
          /\ (calls >= 1) => (before.total_secs <= seconds)
          /\ (bpc = "loop") =>
                /\ stats.total_secs <= seconds
                /\ (calls < requests_count \/ requests_count = 0))
    /\ <>(bpc \in {"returned", "raised"})

\* The time budget ended the loop before the range was used up.
C22_Witness ==
    /\ bpc = "returned"
    /\ calls >= 1
    /\ calls < requests_count
    /\ last.outcome # "KeyboardInterrupt"
    /\ stats.total_secs > seconds
    /\ before.total_secs <= seconds

\* The worker processes that run() has left, by its end or by an exception.
Terminated == { w \in Workers : wpc[w].at \in {"exited", "crashed"} }

\* C23: the parent of a run with several processes reads the Values only
\* once every worker process has ended: when it has built its Stats, every
\* process it started has ended, and the counters of that Stats are the
\* Values as the workers left them.
C23_JoinBeforeRead ==
    (ppc = "returned" /\ threads # 1) =>
        /\ joined = threads
        /\ \A w \in 1..threads : w \in Terminated
        /\ result.requests = shared.requests
        /\ result.requests_correct = shared.requests_correct
        /\ result.requests_incorrect = shared.requests_incorrect

\* Two workers have added their counts and ended, and the parent has read.
C23_Witness ==
    /\ ppc = "returned"
    /\ threads = 2
    /\ \A w \in 1..threads : wpc[w].at = "exited"
    /\ shared.requests >= 1
    /\ result.requests = shared.requests

\* What bench_serial does with these budgets, over the behaviours of the
\* callable.
SerialRuns ==
    { bench_serial(requests_count, seconds, behav) :
        behav \in [1..requests_count -> Behaviours(MaxParDt)] }

\* C24: with one thread bench_parallel is bench_serial: what it returns is
\* a Stats bench_serial returns for these budgets, it raises only what
\* bench_serial raises, no process is started and no Value is created or
\* changed.
C24_OneThreadIsSerial ==
    (threads = 1) =>
        /\ started = 0
        /\ joined = 0
        /\ shared = NoValues
        /\ \A w \in Workers : wpc[w].at = "unborn"
        /\ (ppc = "returned") =>
              \E r \in SerialRuns : r.raised = "" /\ r.stats = result
        /\ (ppc = "raised") =>
              \E r \in SerialRuns : r.raised # ""

\* The one-thread run returned a Stats that counts a failure of the
\* callable, which only bench_serial's Stats can carry.
C24_Witness ==
    /\ threads = 1
    /\ ppc = "returned"
    /\ result.requests = 1
    /\ result.requests_failure = 1
    /\ shared = NoValues
    /\ started = 0

\* C25: an invocation of the callable that returned the integer n has made
\* the request count of bench_serial grow by n.
C25_RequestsGrowByReturn ==
    (calls >= 1 /\ last.outcome = "return") =>
        (stats.requests = before.requests + last.ret)

\* ------------------------- bench_parallel over a client: who uses a socket
\* The callable is one ClientSumTCP made by the caller, with the socket the
\* caller gave it or none; Process.start() forks, so every worker process
\* begins with a copy of the callable, its socket's descriptor included.
LinkIds == 1..MaxLinks
FreshLink == [fin |-> FALSE, users |-> {}]
UnbornClient == [sock |-> None, timeout |-> FALSE, at |-> "unborn", left |-> 0]

InitFork ==
    /\ held \in {None, 1}
    /\ nlink = IF held = None THEN 0 ELSE 1
    /\ links = [k \in LinkIds |-> FreshLink]
    /\ wclient = [w \in Workers |-> UnbornClient]
    /\ SerialIdle
    /\ ParallelIdle
    /\ BenchmarkIdle
    /\ ClientIdle
    /\ CallIdle
    /\ BatchIdle
    /\ ShuffleIdle
    /\ CodecIdle
    /\ RouteIdle

\* x.start() of the next process: run() begins in a copy of the parent, and
\* bench_serial has requests_count iterations before it.
ForkStart(w) ==
    /\ wclient[w].at = "unborn"
    /\ \A v \in Workers : v < w => wclient[v].at # "unborn"
    /\ \E n \in 1..MaxWorkerCalls :
          wclient' = [wclient EXCEPT ![w] =
                         [sock |-> held, timeout |-> FALSE, at |-> "send",
                          left |-> n]]
    /\ UNCHANGED <<held, links, nlink>>
    /\ UNCHANGED notFork

\* socket_is_closed(self.sock) in worker w.
fork_socket_is_closed(me) ==
    IF me.sock = None THEN "True"
    ELSE IF links[me.sock].fin THEN "True"
    ELSE IF me.timeout THEN "TimeoutError"
    ELSE "False"

\* The iteration of bench_serial in worker w is over.
IterationDone(me, timeout) ==
    [me EXCEPT !.timeout = timeout,
               !.left = @ - 1,
               !.at = IF me.left = 1 THEN "exited" ELSE "send"]

\* ClientSumTCP.send in worker w: the check peeks at the socket it holds,
\* a closed or absent socket is replaced by a new connection, and the
\* request goes out on self.sock.
ForkSend(w) ==
    /\ wclient[w].at = "send"
    /\ LET me == wclient[w]
           closed == fork_socket_is_closed(me)
           seen   == IF me.sock = None THEN links
                     ELSE [links EXCEPT ![me.sock].users = @ \cup {w}]
       IN  CASE closed = "TimeoutError" ->
                  /\ wclient' = [wclient EXCEPT
                                    ![w] = IterationDone(me, TRUE)]
                  /\ links' = seen
                  /\ UNCHANGED nlink
             [] closed = "True" ->
                  /\ nlink < MaxLinks
                  /\ LET k == make_socket(nlink)
                     IN  /\ wclient' = [wclient EXCEPT ![w].sock = k,
                                                       ![w].at = "recv"]
                         /\ links' = [seen EXCEPT ![k].users = @ \cup {w}]
                  /\ nlink' = nlink + 1
             [] OTHER ->
                  /\ wclient' = [wclient EXCEPT ![w].at = "recv"]
                  /\ links' = seen
                  /\ UNCHANGED nlink
    /\ UNCHANGED held
    /\ UNCHANGED notFork

\* ClientSumTCP.recv in worker w: the response, or nothing within the
\* timeout, in which case the timeout stays on the socket.
ForkRecv(w) ==
    /\ wclient[w].at = "recv"
    /\ LET me == wclient[w]
       IN  /\ \E timed \in IF links[me.sock].fin THEN {FALSE} ELSE BOOLEAN :
                 wclient' = [wclient EXCEPT ![w] = IterationDone(me, timed)]
           /\ links' = [links EXCEPT ![me.sock].users = @ \cup {w}]
    /\ UNCHANGED <<held, nlink>>
    /\ UNCHANGED notFork

\* The peer closes connection k.
LinkClose(k) ==
    /\ k <= nlink
    /\ ~links[k].fin
    /\ links' = [links EXCEPT ![k].fin = TRUE]
    /\ UNCHANGED <<held, wclient, nlink>>
    /\ UNCHANGED notFork

NextFork ==
    \/ \E w \in Workers : ForkStart(w)
    \/ \E w \in Workers : ForkSend(w)
    \/ \E w \in Workers : ForkRecv(w)
    \/ \E k \in LinkIds : LinkClose(k)

SpecFork == InitFork /\ [][NextFork]_vars

\* C27: the total time of a run with several processes is the parent's own
\* span, from its clock reading before the first start to its reading
\* after the last join: every worker began and ended within it, and it is
\* no shorter than any worker's own measured time.
C27_TotalIsParentSpan ==
    (ppc = "returned" /\ threads # 1) =>
        /\ result.total_secs = now - global_start_time
        /\ \A w \in 1..threads :
              /\ wbegin[w] >= global_start_time
              /\ wbegin[w] + wstats[w].total_secs <= now
              /\ result.total_secs >= wstats[w].total_secs

\* Two workers ran side by side for one tick each: the total is one tick,
\* not two.
C27_Witness ==
    /\ ppc = "returned"
    /\ threads = 2
    /\ wstats[1].total_secs = 1
    /\ wstats[2].total_secs = 1
    /\ result.total_secs = 1

\* ------------------------------------------- properties: the clients' sockets
PlainVariants == Variants \ {"ucall_tls"}
RecvPcs == {"recv4", "recv_header", "recv_body", "recvall", "recv"}

\* C7: the closed-connection check of the plain clients answers True exactly
\* when the client holds no socket or the non-blocking one-byte peek returned
\* no byte; it answers False when the peek reported would-block or found
\* pending data; any other error of the peek leaves the check as raised.
C7_CheckAnswers ==
    (variant \in PlainVariants /\ checked # NoAnswer) =>
        /\ (checked = "True") <=> (peeked \in {"none", "eof"})
        /\ (peeked \in {"EAGAIN", "data"}) => (checked = "False")
        /\ (peeked \notin {"none", "eof", "EAGAIN", "data"})
              => (checked = peeked)

\* A check on a connection the peer has closed answered True, and a check
\* is the last thing that happened.
C7_Witness ==
    /\ variant \in PlainVariants
    /\ run.n >= 1
    /\ sock # None
    /\ socks[sock].fin
    /\ peeked = "eof"
    /\ checked = "True"

\* C8: checks made in a row with no I/O in between all answer what the
\* first of them answered, none of them blocks, and the socket handle and
\* the unread bytes of the stream stay what they were before the first; for
\* Client and for ClientTLS.
C8_CheckIdempotent ==
    (variant \in {"ucall", "ucall_tls"}) =>
        /\ cpc # "check_read"
        /\ (run.n >= 1) =>
              /\ checked = run.first
              /\ sock = run.handle
              /\ Unread(sock, socks) = run.unread

\* C9: an invoke whose connect failed made that one attempt and ended with
\* the error; the invoke after it makes a connection attempt of its own;
\* and after an invoke, when the client holds no live connection, the check
\* answers True.
C9_ReconnectAfterFailure ==
    /\ inv.failed => (inv.connects = 1 /\ ret.raised # "" /\ cpc = "idle")
    /\ inv.prevFailed => (inv.connects = 1)
    /\ (cpc = "idle" /\ inv.n >= 1
          /\ (sock = None \/ socks[sock].st # "open"))
          => LET c == IsClosed(variant, sock, socks)
             IN  ~c.blocked /\ c.raised = "" /\ c.value

\* Every connection the client made was accepted and the peer has neither
\* closed nor reset any of them.
PeerNeverCloses ==
    \A i \in 1..nsock :
        socks[i].st = "open" /\ ~socks[i].fin /\ ~socks[i].err

\* C20: an invoke of the plain clients makes a connection exactly when it
\* began without a handle or its check saw the end of the stream, and it
\* makes one; when its check found the connection open the handle is the
\* one held before and no connection is made; while the peer never closes,
\* all invokes together have made one connection; and once a check has
\* answered that the peer closed, the next invoke's check answers the same,
\* so that invoke reconnects.
C20_ConnectWhenClosed ==
    (variant \in PlainVariants) =>
        /\ (inv.n >= 1) =>
              /\ inv.connects \in {0, 1}
              /\ (inv.connects = 1) <=> (inv.peeked \in {"none", "eof"})
              /\ (inv.peeked = "none") <=> (inv.handle = None)
              /\ (inv.answer = "False") =>
                    (sock = inv.handle /\ inv.connects = 0)
              /\ PeerNeverCloses => (nsock = 1)
        /\ (cpc = "idle" /\ run.n >= 1 /\ checked = "True" /\ peeked = "eof") =>
              LET c == IsClosed(variant, sock, socks)
              IN  ~c.blocked /\ c.raised = "" /\ c.value
                     /\ c.peeked = "eof"

\* The second invoke found that the peer had closed the first connection
\* and made the second one, on which its request went out.
C20_Witness ==
    /\ variant \in PlainVariants
    /\ inv.n = 2
    /\ inv.peeked = "eof"
    /\ inv.connects = 1
    /\ inv.handle = 1
    /\ socks[1].fin
    /\ nsock = 2
    /\ sock = 2
    /\ socks[2].st = "open"
    /\ unanswered[2] = 1

\* The descriptors that are open for the client.
OpenDescriptors == { i \in SockIds : socks[i].fd }

\* C21: an invoke of Client or ClientTLS that replaced a handle by a new
\* connection found the descriptor of the old handle closed when it made
\* the new socket, and never more than one descriptor is open for the
\* client.
C21_StaleClosedFirst ==
    (variant \in {"ucall", "ucall_tls"}) =>
        /\ (inv.n >= 1 /\ inv.connects = 1 /\ inv.handle # None)
              => ~inv.staleOpen
        /\ Cardinality(OpenDescriptors) <= 1

\* C29: a receive of Client or of ClientSumTCP that got no byte at all ends
\* as a timeout failure and its bytes are never handed to the JSON parser:
\* no invoke ends with the parser's failure on zero bytes.
C29_EmptyIsTimeout ==
    (variant \in {"ucall", "sum_tcp"} /\ cpc = "idle" /\ inv.n >= 1) =>
        ~(ret.raised = "JSONDecodeError" /\ ret.value = <<>>)

\* C10: a receive that is waiting can always go on without the peer: bytes
\* are there to read, the stream has ended, or a timeout is armed that will
\* end the receive with a failure.
C10_ReceiveNeverStuck ==
    (cpc \in RecvPcs) => ENABLED Receive

\* The first request on the client's connection was answered with reply r,
\* all of r has arrived at the socket, and the connection stays open.
AnsweredWith(r) ==
    /\ sock # None
    /\ inv.n = 1
    /\ nsock = 1
    /\ socks[sock].st = "open"
    /\ ~socks[sock].fin
    /\ ~socks[sock].err
    /\ unanswered[sock] = 0
    /\ reply[sock] = r
    /\ wire[sock] = <<>>

\* C11: for an HTTP response with Content-Length n, however its bytes are
\* split into reads, _receive_all returns the n body bytes, does not wait
\* for more once they have arrived, and leaves none of them on the socket.
C11_BodyByContentLength ==
    (variant \in {"ucall", "ucall_tls"}
        /\ AnsweredWith(HttpResponse(Len(JsonDoc), JsonDoc))) =>
        /\ (cpc = "idle") =>
              (ret = [raised |-> "", value |-> JsonDoc]
                 /\ socks[sock].rcv = <<>>)
        /\ (cpc \in RecvPcs) => (socks[sock].rcv # <<>>)

\* The requests sent on socket i whose response the client has not read to
\* its end: those the peer has not answered, and the one whose answer is
\* still on its way or unread.
Outstanding(i) ==
    unanswered[i]
      + (IF wire[i] # <<>> \/ socks[i].rcv # <<>> THEN 1 ELSE 0)

\* C18: on a connection at most one request is in flight: none is sent
\* while the response to an earlier one has not been received, whether that
\* earlier invoke returned, failed or timed out.
C18_OneInFlight ==
    \A i \in SockIds : Outstanding(i) <= 1

\* --------------------------------------------- properties: a method call
\* C12: a call returns to its caller only with a response whose jsonrpc
\* member is present and truthy and whose id is the id of the request the
\* call sent.
C12_ResponseMatchesRequest ==
    outcome.returned =>
        (response.jsonrpc = "2.0" /\ response.id = request.id)

\* C13: when the response carries an error member the caller gets an error
\* and no result: the call raises, or it returns a Response each accessor
\* of which raises an error that carries the peer's error object.
C13_ErrorNeverAResult ==
    (klass \in {"ucall", "ujrpc"} /\ mpc = "done" /\ response.got
        /\ "error" \in response.has) =>
        \/ outcome.raised # ""
        \/ /\ klass = "ucall"
           /\ outcome.returned
           /\ (accessed.name # "") =>
                 (~accessed.returned /\ accessed.raised = "RuntimeError"
                    /\ accessed.carries = response.error)

\* C14: every request sent carries an id, an integer of [1, 2^16]; it is
\* the caller's id whenever the caller gave one.
C14_CallerIdKept ==
    request.sent =>
        /\ request.id # None
        /\ request.id \in 1..(2^16)
        /\ (input.id # None) => (request.id = input.id)

\* The arguments of client.method(...) are all values JSON can hold.
AllNative(inp) ==
    /\ \A k \in 1..Len(inp.args) : JsonNative(inp.args[k])
    /\ \A k \in 1..Len(inp.kwargs) : JsonNative(inp.kwargs[k])

Binary(x) == x.kind \in {"bytes", "ndarray", "image"}
C16_PackingEncodesBinary ==
    LET d == getattr_call(input)
    IN  (klass \in {"ucall", "ujrpc"} /\ mpc # "start" /\ d.raised = "") =>
            /\ outcome.raised = ""
            /\ request.sent
            /\ request.keys = d.keys
            /\ Len(request.params) = Len(d.params)
            /\ \A k \in 1..Len(d.params) :
                  IF Binary(d.params[k])
                  THEN request.params[k].kind = "str"
                          /\ request.params[k].enc # ""
                  ELSE request.params[k] = d.params[k]

\* ------------------------------------------------ properties: batches
\* How many entries of the batch sent bear an id.
IdBearing == Cardinality({ k \in 1..Len(batch.ids) : batch.ids[k] })

\* C17: a response that is no array, or an array of another length than
\* the number of id-bearing entries of the batch, ends recv with
\* AssertionError; and what recv returns is that number.
C17_BatchLengthAsserted ==
    (batpc = "done") =>
        /\ (bresponse.shape # "array" \/ Len(bresponse.items) # IdBearing)
              => (boutcome.raised = "AssertionError")
        /\ boutcome.returned =>
              (boutcome.value = IdBearing
                 /\ Len(bresponse.items) = IdBearing)

\* ---------------------------------------- properties: shuffled clients
\* C19: whatever the order of the sends and of the receives, a client reads
\* only responses to its own requests, and a receive that returns has read
\* the response with the client's own id and its expected sum; in the first
\* round that is the response to the request just sent.
C19_OwnResponseOnly ==
    \A c \in ClientIds :
        /\ \A i \in 1..Len(clients[c].read) : clients[c].read[i].to = c
        /\ clients[c].returned =>
              /\ Len(clients[c].read) = 1
              /\ clients[c].read[1].id = identity(c)
              /\ clients[c].read[1].result.v = clients[c].expected
              /\ (cycle = 1) => (clients[c].read[1].seq = clients[c].seq)

\* Both clients sent, the second of them received first, and each got its
\* own response.
C19_Witness ==
    /\ clients[1].nth = 1 /\ clients[2].nth = 2
    /\ clients[2].mth = 1 /\ clients[1].mth = 2
    /\ clients[1].returned
    /\ clients[2].returned
    /\ clients[1].sock # clients[2].sock
    /\ clients[1].read[1].to = 1
    /\ clients[2].read[1].to = 2

\* A str that is base64 text.
IsBase64(x) == x.kind = "str" /\ x.enc \notin {"", "loose"}

\* C30: the result the ujrpc client returns follows a fixed priority: when
\* the result is base64 text, decoded bytes that begin with the array magic
\* come back as an array, also when they open as an image; otherwise bytes
\* that open as an image come back as an image; otherwise the decoded bytes
\* come back; a result that is no base64 text comes back as it was.
C30_DecodePriority ==
    (klass = "ujrpc" /\ outcome.returned /\ "result" \in response.has) =>
        LET r == response.result
            o == outcome.data.result
            d == b64decode(r).value
        IN  /\ (IsBase64(r) /\ MagicPrefix(d)) => (o.kind = "ndarray")
            /\ (IsBase64(r) /\ ~MagicPrefix(d)
                   /\ Image_open(d).raised = "") => (o.kind = "image")
            /\ (IsBase64(r) /\ ~MagicPrefix(d)
                   /\ Image_open(d).raised # "") => (o = d)
            /\ ~IsBase64(r) => (o = r)

\* ------------------------------ properties: worker processes and sockets
\* No connection has been used by two worker processes.
NoSharedLink == \A k \in LinkIds : Cardinality(links[k].users) <= 1

Counters(st) == <<st.requests, st.requests_correct, st.requests_incorrect,
                  st.requests_failure, st.last_failure>>

\* C1: in bench_serial, after every iteration and at return, requests equals
\* requests_correct + requests_incorrect + requests_failure, whatever the
\* callable did (return, assertion error, other exception, interruption).
C1_StatsAccounted ==
    stats.requests = stats.requests_correct + stats.requests_incorrect
                        + stats.requests_failure

\* A run that returned after an interruption, having seen a validation
\* failure and another failure before it.
C1_Witness ==
    /\ bpc = "returned"
    /\ last.outcome = "KeyboardInterrupt"
    /\ stats.requests_incorrect > 0
    /\ stats.requests_failure > 0

\* C4: at the end of a serial run the mean latency is the total measured
\* time divided by the number of successes, and 0 when there were none (so
\* a run of validation failures only ends with mean latency 0).
C4_MeanLatencyOverSuccesses ==
    bpc = "returned" =>
        FracEq(stats.mean_latency_secs,
               IF stats.requests_correct = 0 THEN FracZero
               ELSE Frac(stats.total_secs, stats.requests_correct))

\* C5: an interruption during iteration k stops the loop, keeps every
\* counter of the earlier iterations, and bench_serial still returns a
\* finalized Stats, for every k, the first iteration included.
C5_InterruptStillReturns ==
    last.outcome = "KeyboardInterrupt" =>
        /\ bpc = "returned"
        /\ Counters(stats) = Counters(before)
        /\ FracEq(stats.mean_latency_secs,
                  Frac(stats.total_secs, stats.requests))

\* ---------------------------------------------- properties: bench_parallel
RECURSIVE SumOver(_, _)
\* The sum of a count field over the Stats of workers 1..n.
SumOver(field, n) ==
    IF n = 0 THEN 0 ELSE wstats[n][field] + SumOver(field, n - 1)

ParallelReturned == ppc = "returned" /\ threads > 1

\* C2: with W > 1 workers, once all workers have finished, each aggregated
\* count (requests_correct, requests_incorrect, requests) is the sum of that
\* field over the workers' own Stats, for every interleaving of the
\* workers' updates of the shared counters.
C2_CountsAreSums ==
    ParallelReturned =>
        /\ result.requests_correct = SumOver("requests_correct", threads)
        /\ result.requests_incorrect = SumOver("requests_incorrect", threads)
        /\ result.requests = SumOver("requests", threads)

\* What is promised of the success rate of the Stats st.
RateBelowOne(st) ==
    LET r == success_rate(st)
    IN  /\ r.raised = ""
        /\ FracEq(r.value, Frac(st.requests_correct, st.requests + 1))
        /\ st.requests = 0 => r.value.num = 0
        /\ r.value.num >= 0
        /\ r.value.num < r.value.den

\* C33: the success rate of a Stats is requests_correct / (requests + 1):
\* reading it never raises, it is 0 when nothing was requested, and it is
\* below 1 even when every request succeeded. Here of the Stats a run with
\* several processes returns.
C33_SuccessRateBelowOne == ParallelReturned => RateBelowOne(result)

\* The sum of the mean latencies of workers 1..n.
RECURSIVE LatencySum(_)
LatencySum(n) ==
    IF n = 0 THEN FracZero
    ELSE FracAdd(wstats[n].mean_latency_secs, LatencySum(n - 1))

\* C28: with W > 1 workers that all finished, the mean latency of the
\* returned Stats is the sum of the workers' own mean latencies divided by
\* W, for every interleaving of the workers' updates of the shared
\* accumulator.
C28_MeanOfWorkerMeans ==
    (ParallelReturned /\ \A w \in 1..threads : wpc[w].at = "exited") =>
        FracEq(result.mean_latency_secs,
               FracDivInt(LatencySum(threads), threads))

\* C3: the aggregated Stats of a parallel run accounts for every failure
\* kind: requests_failure is the sum of the workers' requests_failure,
\* last_failure carries a worker's last failure when a worker recorded one,
\* and requests == requests_correct + requests_incorrect + requests_failure.
C3_FailuresAggregated ==
    ParallelReturned =>
        /\ result.requests_failure = SumOver("requests_failure", threads)
        /\ (\E w \in 1..threads : wstats[w].last_failure # "")
              => \E w \in 1..threads :
                    /\ wstats[w].last_failure # ""
                    /\ result.last_failure = wstats[w].last_failure
        /\ result.requests = result.requests_correct
                                + result.requests_incorrect
                                + result.requests_failure

\* ------------------------------------------------- properties: benchmark()
\* C6: each iteration of the benchmark loop bumps exactly one outcome
\* counter: the success counter when the callable returned, a
\* validation-failure counter when it raised an assertion-style error,
\* another counter when it raised any other error; the two kinds of failure
\* are never counted in the same counter.
C6_OutcomesCountedApart ==
    /\ tlast.outcome \in {"return", "AssertionError", "Exception"} =>
          (tstats.transmits_success - tbefore.transmits_success)
            + (tstats.transmits_failed - tbefore.transmits_failed) = 1
    /\ tlast.outcome = "return" =>
          tstats.transmits_success = tbefore.transmits_success + 1
    /\ \A f \in OutcomeCounters :
          ~ ({"AssertionError", "Exception"} \subseteq countedIn[f])


\* The iterations of benchmark() that ran to their end: one that a
\* KeyboardInterrupt left is not among them.
Completed == IF tpc = "raised" THEN tcalls - 1 ELSE tcalls

\* C34: after every iteration the two transmit counters add up to
\* the number of iterations executed, and an iteration is counted as a
\* success exactly when the callable returned without raising, whatever it
\* returned, 0 included.
C34_SuccessIffReturned ==
    /\ tstats.transmits_success + tstats.transmits_failed = Completed
    /\ (tcalls >= 1 /\ tpc # "raised") =>
          ((tstats.transmits_success = tbefore.transmits_success + 1)
             <=> (tlast.outcome = "return"))

====
